---- MODULE Spec2Model ----
(***************************************************************************)
(* Model of the region query engine of package where: the Region record,  *)
(* the Set collection (filters, algebra, in-place exchange sorts), the     *)
(* catalog lookups and the fluent Query builder with its accumulated error *)
(* list.  Go slices are modelled as a reference to a backing array in     *)
(* `heap` together with a length, so that sharing of a backing array       *)
(* between the catalog, a Query and a caller is visible.                   *)
(***************************************************************************)
EXTENDS Integers, Sequences, FiniteSets, TLC

(***************************************************************************)
(* Bounds of the model.                                                    *)
(***************************************************************************)
\* longest error list a Query accumulates in the model
MaxErrors == 2
\* largest argument given to Limit (the smallest is -1)
MaxLimit == 3
\* the caller writes to the first MaxWrite elements of a collection
MaxWrite == 2
\* longest Set A, and longest Set B, that the Set methods are called on
MaxLen == 3
MaxOther == 2
MaxCodes == 3

(***************************************************************************)
(* Strings.  Go compares strings byte-wise and strings.EqualFold folds     *)
(* letter case; both are computed on the bytes of the string.              *)
(***************************************************************************)
ByteTable ==
    ("" :> << >>)
    @@ ("aws" :> <<97, 119, 115>>)
    @@ ("AWS" :> <<65, 87, 83>>)
    @@ ("gcp" :> <<103, 99, 112>>)
    @@ ("Tokyo" :> <<84, 111, 107, 121, 111>>)
    @@ ("tokyo" :> <<116, 111, 107, 121, 111>>)
    @@ ("Osaka" :> <<79, 115, 97, 107, 97>>)
    @@ ("Sao Paulo" :> <<83, 97, 111, 32, 80, 97, 117, 108, 111>>)
    @@ ("Virginia" :> <<86, 105, 114, 103, 105, 110, 105, 97>>)
    @@ ("Ashburn" :> <<65, 115, 104, 98, 117, 114, 110>>)
    @@ ("Atlantis" :> <<65, 116, 108, 97, 110, 116, 105, 115>>)
    @@ ("Japan" :> <<74, 97, 112, 97, 110>>)
    @@ ("japan" :> <<106, 97, 112, 97, 110>>)
    @@ ("Brazil" :> <<66, 114, 97, 122, 105, 108>>)
    @@ ("United States" :> <<85, 110, 105, 116, 101, 100, 32, 83, 116, 97, 116, 101, 115>>)
    @@ ("Asia" :> <<65, 115, 105, 97>>)
    @@ ("asia" :> <<97, 115, 105, 97>>)
    @@ ("Europe" :> <<69, 117, 114, 111, 112, 101>>)
    @@ ("Oceania" :> <<79, 99, 101, 97, 110, 105, 97>>)
    @@ ("Africa" :> <<65, 102, 114, 105, 99, 97>>)
    @@ ("North America" :> <<78, 111, 114, 116, 104, 32, 65, 109, 101, 114, 105, 99, 97>>)
    @@ ("north america" :> <<110, 111, 114, 116, 104, 32, 97, 109, 101, 114, 105, 99, 97>>)
    @@ ("South America" :> <<83, 111, 117, 116, 104, 32, 65, 109, 101, 114, 105, 99, 97>>)

\* the bytes of a string
Bytes(s) == ByteTable[s]

\* the ASCII case fold of one byte
FoldByte(b) == IF b >= 65 /\ b =< 90 THEN b + 32 ELSE b

\* strings.EqualFold(a, b)
EqualFold(a, b) ==
    LET x == Bytes(a)
        y == Bytes(b)
    IN  /\ Len(x) = Len(y)
        /\ \A i \in 1..Len(x) : FoldByte(x[i]) = FoldByte(y[i])

RECURSIVE BytesGreater(_, _, _)
BytesGreater(x, y, i) ==
    IF i > Len(x) THEN FALSE
    ELSE IF i > Len(y) THEN TRUE
    ELSE IF x[i] # y[i] THEN x[i] > y[i]
    ELSE BytesGreater(x, y, i + 1)

\* the Go comparison a > b on strings
StringGreater(a, b) == BytesGreater(Bytes(a), Bytes(b), 1)

(***************************************************************************)
(* Status and Region.                                                      *)
(***************************************************************************)
Active == 0
Deprecated == 1
Preview == 2

\* Region{}: the zero value returned next to an error
ZeroRegion ==
    [Code |-> "", Name |-> "", Provider |-> "", Country |-> "", City |-> "",
     Continent |-> "", Latitude |-> 0, Longitude |-> 0, Status |-> Active]

\* coordinates (whole degrees) that occur in the model
Coords ==
    << <<36, 140>>, <<35, 136>>, <<35, 139>>, <<-24, -47>>, <<39, -77>>, <<41, -74>>,
       <<0, 0>> >>

CoordIndex(lat, lng) == CHOOSE i \in 1..Len(Coords) : Coords[i] = <<lat, lng>>

\* the haversine formula with earthRadiusKm = 6371.0 evaluated on Coords,
\* rounded to the kilometre
HaversineKm ==
    << <<0, 379, 143, 18521, 10852, 10778, 14266>>,
       <<379, 0, 273, 18758, 11115, 11025, 14022>>,
       <<143, 273, 0, 18662, 10993, 10916, 14254>>,
       <<18521, 18758, 18662, 0, 7669, 7747, 5722>>,
       <<10852, 11115, 10993, 7669, 0, 339, 8888>>,
       <<10778, 11025, 10916, 7747, 339, 0, 8672>>,
       <<14266, 14022, 14254, 5722, 8888, 8672, 0>> >>

haversineDistance(lat1, lng1, lat2, lng2) ==
    HaversineKm[CoordIndex(lat1, lng1)][CoordIndex(lat2, lng2)]

\* Region.Distance
Distance(r, other) ==
    haversineDistance(r.Latitude, r.Longitude, other.Latitude, other.Longitude)

\* Region.IsActive
RegionIsActive(r) == r.Status = Active

\* Region.IsNear as it would be with < in place of <=
IsNearInside(r, lat, lng, radiusKm) ==
    haversineDistance(r.Latitude, r.Longitude, lat, lng) < radiusKm

\* Region.IsNear
IsNear(r, lat, lng, radiusKm) ==
    haversineDistance(r.Latitude, r.Longitude, lat, lng) =< radiusKm

(***************************************************************************)
(* The catalog's records.                                                  *)
(***************************************************************************)
TokyoAWS ==
    [Code |-> "ap-northeast-1", Name |-> "Tokyo", Provider |-> "aws",
     Country |-> "Japan", City |-> "Tokyo", Continent |-> "Asia",
     Latitude |-> 36, Longitude |-> 140, Status |-> Active]
TokyoGCP ==
    [Code |-> "ap-northeast-1", Name |-> "Tokyo", Provider |-> "gcp",
     Country |-> "Japan", City |-> "Tokyo", Continent |-> "Asia",
     Latitude |-> 35, Longitude |-> 139, Status |-> Preview]
SaoPauloAWS ==
    [Code |-> "sa-east-1", Name |-> "Sao Paulo", Provider |-> "aws",
     Country |-> "Brazil", City |-> "Sao Paulo", Continent |-> "South America",
     Latitude |-> -24, Longitude |-> -47, Status |-> Deprecated]
VirginiaAWS ==
    [Code |-> "us-east-1", Name |-> "Virginia", Provider |-> "aws",
     Country |-> "United States", City |-> "Ashburn", Continent |-> "North America",
     Latitude |-> 39, Longitude |-> -77, Status |-> Active]

(***************************************************************************)
(* Set: the operations that build a new Set, on the sequence of elements.  *)
(***************************************************************************)
\* Filter as it would be if the loop ended at the first element that does
\* not satisfy the predicate
FilterUntilMiss(s, keep) ==
    LET result[i \in 0..Len(s)] ==
            IF i = 0 THEN << >>
            ELSE IF \A j \in 1..i : keep[j] THEN Append(result[i - 1], s[i])
            ELSE result[i - 1]
    IN  result[Len(s)]

\* Set.Filter: the elements satisfying the predicate, in their order;
\* keep[i] is the predicate's value on s[i]
Filter(s, keep) ==
    LET result[i \in 0..Len(s)] ==
            IF i = 0 THEN << >>
            ELSE IF keep[i] THEN Append(result[i - 1], s[i])
            ELSE result[i - 1]
    IN  result[Len(s)]

OnProvider(s, name) == Filter(s, [i \in DOMAIN s |-> EqualFold(s[i].Provider, name)])
ByCountry(s, name) == Filter(s, [i \in DOMAIN s |-> EqualFold(s[i].Country, name)])
ByCity(s, name) == Filter(s, [i \in DOMAIN s |-> EqualFold(s[i].City, name)])
ByContinent(s, name) == Filter(s, [i \in DOMAIN s |-> EqualFold(s[i].Continent, name)])
ActiveOnly(s) == Filter(s, [i \in DOMAIN s |-> s[i].Status = Active])
Near(s, lat, lng, radiusKm) ==
    Filter(s, [i \in DOMAIN s |-> IsNear(s[i], lat, lng, radiusKm)])

\* the error of Set.First and Set.Last on an empty Set
\* an error value: its kind (the message, or the error it wraps), the codes
\* its message names, and whether they are printed as a list
ErrNoRegions == [kind |-> "no regions found", codes |-> << >>, list |-> FALSE]
NoError == [kind |-> "nil", codes |-> << >>, list |-> FALSE]

\* Set.First, Set.Last: the pair (Region, error)
SetFirst(s) ==
    IF Len(s) = 0 THEN [region |-> ZeroRegion, err |-> ErrNoRegions]
    ELSE [region |-> s[1], err |-> NoError]
\* Last as it would be if it indexed with len(s)-2
SetLastButOne(s) ==
    IF Len(s) = 0 THEN [region |-> ZeroRegion, err |-> ErrNoRegions]
    ELSE [region |-> IF Len(s) = 1 THEN s[1] ELSE s[Len(s) - 1], err |-> NoError]

SetLast(s) ==
    IF Len(s) = 0 THEN [region |-> ZeroRegion, err |-> ErrNoRegions]
    ELSE [region |-> s[Len(s)], err |-> NoError]

(***************************************************************************)
(* Set algebra, keyed by Code.                                             *)
(***************************************************************************)
\* the body of the loops of Union: a Region whose Code was not seen yet is
\* appended to the result and its Code is marked as seen
Visit(st, region) ==
    IF region.Code \notin st.seen
    THEN [seen |-> st.seen \cup {region.Code}, result |-> Append(st.result, region)]
    ELSE st

\* Union as it would be if the Regions of s were appended without looking
\* at the Codes already seen
UnionKeepingOwn(s, other) ==
    LET first[i \in 0..Len(s)] ==
            IF i = 0 THEN [seen |-> {}, result |-> << >>]
            ELSE [seen |-> first[i - 1].seen \cup {s[i].Code},
                  result |-> Append(first[i - 1].result, s[i])]
        second[i \in 0..Len(other)] ==
            IF i = 0 THEN first[Len(s)] ELSE Visit(second[i - 1], other[i])
    IN  second[Len(other)].result

\* Union as it would be if the second loop did not mark the Codes it
\* appends as seen
UnionNotMarking(s, other) ==
    LET first[i \in 0..Len(s)] ==
            IF i = 0 THEN [seen |-> {}, result |-> << >>] ELSE Visit(first[i - 1], s[i])
        second[i \in 0..Len(other)] ==
            IF i = 0 THEN first[Len(s)]
            ELSE [second[i - 1] EXCEPT !.result =
                      IF other[i].Code \notin second[i - 1].seen
                      THEN Append(@, other[i]) ELSE @]
    IN  second[Len(other)].result

\* Set.Union: the loop over s, then the loop over other
Union(s, other) ==
    LET first[i \in 0..Len(s)] ==
            IF i = 0 THEN [seen |-> {}, result |-> << >>] ELSE Visit(first[i - 1], s[i])
        second[i \in 0..Len(other)] ==
            IF i = 0 THEN first[Len(s)] ELSE Visit(second[i - 1], other[i])
    IN  second[Len(other)].result

\* otherMap of Intersect and Difference: the Codes of other
OtherMap(other) == {other[i].Code : i \in DOMAIN other}

\* Intersect as it would be if it looked for the whole record in other
IntersectByRecord(s, other) ==
    LET result[i \in 0..Len(s)] ==
            IF i = 0 THEN << >>
            ELSE IF s[i] \in {other[j] : j \in DOMAIN other}
            THEN Append(result[i - 1], s[i])
            ELSE result[i - 1]
    IN  result[Len(s)]

\* Set.Intersect
Intersect(s, other) ==
    LET result[i \in 0..Len(s)] ==
            IF i = 0 THEN << >>
            ELSE IF s[i].Code \in OtherMap(other) THEN Append(result[i - 1], s[i])
            ELSE result[i - 1]
    IN  result[Len(s)]

\* Set.Difference
Difference(s, other) ==
    LET result[i \in 0..Len(s)] ==
            IF i = 0 THEN << >>
            ELSE IF s[i].Code \notin OtherMap(other) THEN Append(result[i - 1], s[i])
            ELSE result[i - 1]
    IN  result[Len(s)]

(***************************************************************************)
(* Set: the in-place exchange sorts.  The loops run i from the first to    *)
(* the last but one position and j over the positions after i, and swap    *)
(* s[i] and s[j] whenever s[i] is greater.                                 *)
(***************************************************************************)
\* the exchange as it would be if it only assigned s[i]
SwapOverwriting(s, i, j) == [s EXCEPT ![i] = s[j]]

Swap(s, i, j) == [s EXCEPT ![i] = s[j], ![j] = s[i]]

\* the elements of s
Elements(s) == {s[i] : i \in DOMAIN s}

\* the sort as it would be if the inner loop only compared neighbours
\* (s[j-1] with s[j]) and the outer loop made a single pass
SinglePassSort(s, greater) ==
    LET n == Len(s)
        exchange(t, j) == IF greater[<<t[j - 1], t[j]>>] THEN Swap(t, j - 1, j) ELSE t
        after[j \in 1..n] == IF j = 1 THEN s ELSE exchange(after[j - 1], j)
    IN  IF n = 0 THEN s ELSE after[n]

\* greater[<<a, b>>] is the comparison a > b of the sort's keys
ExchangeSort(s, greater) ==
    LET n == Len(s)
        \* one comparison of the inner loop, at positions i < j
        exchange(t, i, j) == IF greater[<<t[i], t[j]>>] THEN Swap(t, i, j) ELSE t
        \* the inner loop for one i: j runs over i+1 .. n
        inner(t, i) ==
            LET after[j \in i..n] == IF j = i THEN t ELSE exchange(after[j - 1], i, j)
            IN  after[n]
        \* the outer loop: i runs over 1 .. n-1
        outer[i \in 0..n] == IF i = 0 THEN s ELSE inner(outer[i - 1], i)
    IN  IF n = 0 THEN s ELSE outer[n - 1]

SortByDistance(s, lat, lng) ==
    ExchangeSort(s, [p \in Elements(s) \X Elements(s) |->
        haversineDistance(lat, lng, p[1].Latitude, p[1].Longitude)
            > haversineDistance(lat, lng, p[2].Latitude, p[2].Longitude)])
SortByName(s) ==
    ExchangeSort(s, [p \in Elements(s) \X Elements(s) |-> StringGreater(p[1].Name, p[2].Name)])
SortByProvider(s) ==
    ExchangeSort(s, [p \in Elements(s) \X Elements(s) |->
        StringGreater(p[1].Provider, p[2].Provider)])
SortByCountry(s) ==
    ExchangeSort(s, [p \in Elements(s) \X Elements(s) |->
        StringGreater(p[1].Country, p[2].Country)])

(***************************************************************************)
(* State.                                                                  *)
(***************************************************************************)
VARIABLES
    regionRegistry, \* the catalog: region code -> slice of the Regions with that code
    heap,           \* backing arrays: address -> sequence of Regions
    loaded,         \* the records the catalog was initialised with, per code
    query,          \* the Query objects: live, regions (a slice), errors
    alone,          \* per Query: the Set and the error list that its own steps
                    \* produce from the snapshot it started with
    ret,            \* what the most recent call returned
    held,           \* a collection the caller obtained from a call and kept
    gor,            \* two goroutines calling one Query: where each is in its call
    sets,           \* the Sets A and B that the Set methods are called on, and
                    \* the elements they were given with
    panicked,       \* a call panicked (slice bounds out of range)
    prog,           \* the calls of a straight-line caller (empty: any call, any time)
    pc              \* the number of calls of prog made so far

vars ==
    <<regionRegistry, heap, loaded, query, alone, ret, held, gor, sets, panicked, prog, pc>>

(***************************************************************************)
(* Slices and backing arrays.                                              *)
(***************************************************************************)
\* a slice with no backing array (nil, or an empty literal)
NilSlice == [arr |-> 0, len |-> 0]

\* the elements visible through slice s
Content(h, s) == IF s.arr = 0 THEN << >> ELSE SubSeq(h[s.arr], 1, s.len)

\* a fresh address
NewAddr(h) == CHOOSE a \in 1..(Cardinality(DOMAIN h) + 1) : a \notin DOMAIN h

\* make + append: a new backing array holding content, and the slice over it
NewSet(h, content) ==
    LET a == NewAddr(h)
    IN  [heap |-> [x \in DOMAIN h \cup {a} |-> IF x = a THEN content ELSE h[x]],
         set  |-> [arr |-> a, len |-> Len(content)]]

\* writing the elements 1..s.len of the array behind slice s
WriteThrough(h, s, content) ==
    IF s.arr = 0 THEN h
    ELSE [h EXCEPT ![s.arr] = content \o SubSeq(@, s.len + 1, Len(@))]

(***************************************************************************)
(* The catalog.  regionRegistry maps a code to the Regions sharing that    *)
(* code; a catalog is given as the sequence of these lists.                *)
(***************************************************************************)
\* one Region per code
CatalogPerCode == << <<TokyoAWS>>, <<SaoPauloAWS>> >>
\* a code shared by two providers, and a second code
CatalogShared == << <<TokyoAWS, TokyoGCP>>, <<VirginiaAWS>> >>
\* one code only, shared by two providers
CatalogOneCode == << <<TokyoGCP, TokyoAWS>> >>

Catalogs == {CatalogPerCode, CatalogShared, CatalogOneCode}
\* the Tokyo Region of gcp under a code of its own
TokyoGoogle == [TokyoGCP EXCEPT !.Code = "asia-northeast1"]
\* a record whose Continent is written in lower case (the other fields are
\* left zero)
CaCentral == [ZeroRegion EXCEPT !.Code = "ca-central-1", !.Continent = "north america"]
\* two codes with a Region each in one city, at different coordinates
CatalogCity == << <<TokyoAWS>>, <<TokyoGoogle>> >>
\* a Region with the Continent in lower case beside one of the same
\* continent in the usual spelling
CatalogCased == << <<VirginiaAWS>>, <<CaCentral>> >>
\* three codes, one of them shared by two providers
CatalogThree == << <<VirginiaAWS>>, <<SaoPauloAWS>>, <<TokyoAWS, TokyoGCP>> >>

\* the orders in which a range over the map regionRegistry may enumerate
\* its codes: every permutation of them
Orders ==
    LET n == Cardinality(DOMAIN regionRegistry)
        codeAt(a) == CHOOSE c \in DOMAIN regionRegistry : regionRegistry[c].arr = a
    IN  {[i \in 1..n |-> codeAt(p[i])] : p \in Permutations(1..n)}

RECURSIVE Concat(_)
Concat(lists) == IF lists = << >> THEN << >> ELSE Head(lists) \o Concat(Tail(lists))

\* allRegions as it would be if, with a single code in the registry, it
\* returned the registry's own list instead of appending it to a new Set
allRegionsNoCopy(h, order) ==
    IF Len(order) = 1
    THEN [heap |-> h, set |-> regionRegistry[order[1]]]
    ELSE NewSet(h, Concat([i \in DOMAIN order |-> Content(h, regionRegistry[order[i]])]))

\* allRegions: a new Set, the lists of the registry appended in the order
\* the map is enumerated in
allRegions(h, order) ==
    NewSet(h, Concat([i \in DOMAIN order |-> Content(h, regionRegistry[order[i]])]))

\* ErrRegionNotFound wrapped with the code that was not found
ErrRegionNotFound(code) ==
    [kind |-> "region not found", codes |-> <<code>>, list |-> FALSE]

\* Is, as the Query builder calls it (Region, error): the Region of the code
\* (the first one when several share the code), or ErrRegionNotFound
IsOne(code) ==
    IF code \notin DOMAIN regionRegistry
    THEN [region |-> ZeroRegion, err |-> ErrRegionNotFound(code)]
    ELSE [region |-> Content(heap, regionRegistry[code])[1], err |-> NoError]

(***************************************************************************)
(* Arguments of the calls.                                                 *)
(***************************************************************************)
Queries == {"q1", "q2"}
Goroutines == {1, 2}
CountryArgs == {"japan", "Brazil"}
CityArgs == {"tokyo", "Atlantis"}
ContinentArgs == {"asia", "South America"}
ProviderArgs == {"AWS", "gcp"}
PointArgs == {<<35, 139>>, <<41, -74>>}
RadiusArgs == {0, 300, 11000}
BadCodes == {"bogus", "nowhere"}
CodeArgs == {"ap-northeast-1"} \cup BadCodes
LimitArgs == -1 .. MaxLimit
LookupArgs == {"ap-northeast-1", "sa-east-1", "bogus"}
\* codes looked up: two that catalogs hold, one that none holds, the empty code
LookupCodes == {"ap-northeast-1", "sa-east-1", "bogus", ""}
CodeLists == UNION {[1..k -> LookupCodes] : k \in 0..MaxCodes}
AreArgs == {<<"ap-northeast-1">>, <<"bogus", "ap-northeast-1">>, <<"sa-east-1", "nowhere", "bogus">>}

(***************************************************************************)
(* What a call returns.                                                    *)
(***************************************************************************)
NoReturn ==
    [op |-> "none", q |-> "", code |-> "", arg |-> << >>, set |-> NilSlice, errors |-> << >>,
     dist |-> 0, count |-> 0, ok |-> FALSE, list |-> << >>,
     region |-> ZeroRegion, err |-> NoError]

\* the value returned by call op on Query q, before its results are filled
\* in; a chain step returns just the Query it was called on
Returns(op, q) == [NoReturn EXCEPT !.op = op, !.q = q]

ChainOps ==
    {"InCountry", "InCity", "InContinent", "InAmericas", "ByProvider", "ActiveOnly",
     "PreviewOnly", "DeprecatedOnly", "Near", "NearRegion", "NearCity", "Filter",
     "SortByDistance", "SortByName", "SortByProvider", "SortByCountry", "Limit"}

NoQuery == [live |-> FALSE, regions |-> NilSlice, errors |-> << >>]
NotHeld == [set |-> NilSlice, was |-> << >>]
Idle == [at |-> "idle", op |-> "", arg |-> "", seen |-> << >>]
NoSets == [A |-> NilSlice, B |-> NilSlice, wasA |-> << >>, wasB |-> << >>]

\* The end of a call: the new values of what a call can change.  Arrays that
\* nothing references any more are dropped, as are the elements of an array
\* beyond the longest slice over it (no operation can reach them), and the
\* arrays outside the catalog are numbered in the order Query q1, Query q2,
\* ret, held first reference them.
Commit(h, qs, al, rt, hd, pn) ==
    LET refs == <<qs["q1"].regions, qs["q2"].regions, rt.set, hd.set>>
        k == Cardinality(DOMAIN regionRegistry)
        first(a) == CHOOSE i \in 1..4 :
                        refs[i].arr = a /\ \A j \in 1..(i - 1) : refs[j].arr # a
        new(a) == IF a =< k THEN a
                  ELSE k + Cardinality({refs[j].arr : j \in 1..first(a)} \ (0..k))
        old(n) == CHOOSE a \in {refs[i].arr : i \in 1..4} \ (0..k) : new(a) = n
        reach(a) == CHOOSE m \in {refs[i].len : i \in {j \in 1..4 : refs[j].arr = a}} :
                        \A i \in 1..4 : refs[i].arr = a => refs[i].len =< m
        move(s) == [arr |-> new(s.arr), len |-> s.len]
    IN  /\ query' = [q \in Queries |-> [qs[q] EXCEPT !.regions = move(@)]]
        /\ alone' = al
        /\ ret' = [rt EXCEPT !.set = move(@)]
        /\ held' = [hd EXCEPT !.set = move(@)]
        /\ panicked' = pn
        /\ heap' = [n \in (1..k) \cup {new(refs[i].arr) : i \in {j \in 1..4 : refs[j].arr > k}} |->
                       IF n =< k THEN h[n] ELSE SubSeq(h[old(n)], 1, reach(old(n)))]
        /\ pc' = IF prog = << >> THEN pc ELSE pc + 1
        /\ UNCHANGED <<regionRegistry, loaded, prog, gor, sets>>

(***************************************************************************)
(* The Query builder.                                                      *)
(***************************************************************************)
\* NewQuery as it would be if a new Query shared the Set of a Query that is
\* already there
NewQuerySharing(q) ==
    /\ ~panicked
    /\ \E order \in Orders :
        LET other == CHOOSE o \in Queries : o # q
            r == IF query[other].live
                 THEN [heap |-> heap, set |-> query[other].regions]
                 ELSE allRegions(heap, order)
            s == Content(r.heap, r.set)
        IN  Commit(r.heap,
                   [query EXCEPT ![q] = [live |-> TRUE, regions |-> r.set, errors |-> << >>]],
                   [alone EXCEPT ![q] = [snap |-> s, regions |-> s, errors |-> << >>]],
                   Returns("NewQuery", q), held, FALSE)

\* NewQuery: regions is allRegions(), errors is empty
NewQuery(q) ==
    /\ ~panicked
    /\ \E order \in Orders :
        LET r == allRegions(heap, order)
            s == Content(r.heap, r.set)
        IN  Commit(r.heap,
                   [query EXCEPT ![q] = [live |-> TRUE, regions |-> r.set, errors |-> << >>]],
                   [alone EXCEPT ![q] = [snap |-> s, regions |-> s, errors |-> << >>]],
                   Returns("NewQuery", q), held, FALSE)

\* the Set behind Query q
Regions(q) == Content(heap, query[q].regions)

\* a chain step that assigns q.regions a new Set holding result (solo: the
\* same Set operation on the Set of q running alone)
Assign(q, op, result, solo) ==
    /\ ~panicked
    /\ query[q].live
    /\ LET r == NewSet(heap, result)
       IN  Commit(r.heap,
                  [query EXCEPT ![q].regions = r.set],
                  [alone EXCEPT ![q].regions = solo],
                  Returns(op, q), held, FALSE)

\* a chain step that sorts q.regions in place, leaving it as sorted
InPlace(q, op, sorted, solo) ==
    /\ ~panicked
    /\ query[q].live
    /\ Commit(WriteThrough(heap, query[q].regions, sorted),
              query,
              [alone EXCEPT ![q].regions = solo],
              Returns(op, q), held, FALSE)

\* the Set of Query q running alone
Alone(q) == alone[q].regions

QueryInCountry(q, name) ==
    Assign(q, "InCountry", ByCountry(Regions(q), name), ByCountry(Alone(q), name))
QueryInCity(q, name) ==
    Assign(q, "InCity", ByCity(Regions(q), name), ByCity(Alone(q), name))
QueryInContinent(q, name) ==
    Assign(q, "InContinent", ByContinent(Regions(q), name), ByContinent(Alone(q), name))

\* InAsia, InEurope, InOceania, InAfrica forward to InContinent
QueryInAsia(q) == QueryInContinent(q, "Asia")
QueryInEurope(q) == QueryInContinent(q, "Europe")
QueryInOceania(q) == QueryInContinent(q, "Oceania")
QueryInAfrica(q) == QueryInContinent(q, "Africa")

\* InAmericas compares the Continent field with == to the two names
InTheAmericas(s) ==
    Filter(s, [i \in DOMAIN s |->
        s[i].Continent = "North America" \/ s[i].Continent = "South America"])
QueryInAmericas(q) == Assign(q, "InAmericas", InTheAmericas(Regions(q)), InTheAmericas(Alone(q)))

\* ByProvider: the Set's filter by provider name
QueryByProvider(q, name) ==
    Assign(q, "ByProvider", OnProvider(Regions(q), name), OnProvider(Alone(q), name))

\* ActiveOnly as it would be if it kept every Region
QueryActiveOnlyKeepingAll(q) == Assign(q, "ActiveOnly", Regions(q), Alone(q))

QueryActiveOnly(q) == Assign(q, "ActiveOnly", ActiveOnly(Regions(q)), ActiveOnly(Alone(q)))

\* WithStatus as it would be if it kept the first element whatever its
\* status
WithStatusOrFirst(s, status) ==
    Filter(s, [i \in DOMAIN s |-> i = 1 \/ s[i].Status = status])

WithStatus(s, status) == Filter(s, [i \in DOMAIN s |-> s[i].Status = status])
QueryPreviewOnly(q) ==
    Assign(q, "PreviewOnly", WithStatus(Regions(q), Preview), WithStatus(Alone(q), Preview))
QueryDeprecatedOnly(q) ==
    Assign(q, "DeprecatedOnly", WithStatus(Regions(q), Deprecated),
           WithStatus(Alone(q), Deprecated))

QueryNear(q, lat, lng, radiusKm) ==
    Assign(q, "Near", Near(Regions(q), lat, lng, radiusKm), Near(Alone(q), lat, lng, radiusKm))

\* NearRegion as it would be if a code that does not resolve also emptied
\* the Set
QueryNearRegionEmptying(q, code, radiusKm) ==
    /\ ~panicked
    /\ query[q].live
    /\ LET found == IsOne(code)
       IN  IF found.err # NoError
           THEN /\ Len(query[q].errors) < MaxErrors
                /\ Commit(heap,
                          [query EXCEPT ![q].errors = Append(@, found.err),
                                        ![q].regions = NilSlice],
                          [alone EXCEPT ![q].errors = Append(@, found.err),
                                        ![q].regions = << >>],
                          Returns("NearRegion", q), held, FALSE)
           ELSE Assign(q, "NearRegion",
                       Near(Regions(q), found.region.Latitude, found.region.Longitude, radiusKm),
                       Near(Alone(q), found.region.Latitude, found.region.Longitude, radiusKm))

\* NearRegion as it would be if it put the error of a code that does not
\* resolve in front of the errors accumulated so far
QueryNearRegionPrepending(q, code, radiusKm) ==
    /\ ~panicked
    /\ query[q].live
    /\ LET found == IsOne(code)
       IN  IF found.err # NoError
           THEN /\ Len(query[q].errors) < MaxErrors
                /\ Commit(heap,
                          [query EXCEPT ![q].errors = <<found.err>> \o @],
                          [alone EXCEPT ![q].errors = <<found.err>> \o @],
                          Returns("NearRegion", q), held, FALSE)
           ELSE Assign(q, "NearRegion",
                       Near(Regions(q), found.region.Latitude, found.region.Longitude, radiusKm),
                       Near(Alone(q), found.region.Latitude, found.region.Longitude, radiusKm))

\* NearRegion: a code that does not resolve appends the error and returns;
\* otherwise Near around the resolved Region
QueryNearRegion(q, code, radiusKm) ==
    /\ ~panicked
    /\ query[q].live
    /\ LET found == IsOne(code)
       IN  IF found.err # NoError
           THEN /\ Len(query[q].errors) < MaxErrors
                /\ Commit(heap,
                          [query EXCEPT ![q].errors = Append(@, found.err)],
                          [alone EXCEPT ![q].errors = Append(@, found.err)],
                          Returns("NearRegion", q), held, FALSE)
           ELSE Assign(q, "NearRegion",
                       Near(Regions(q), found.region.Latitude, found.region.Longitude, radiusKm),
                       Near(Alone(q), found.region.Latitude, found.region.Longitude, radiusKm))

\* NearCity as it would be if a city without Regions left the Set as it is
QueryNearCityKeeping(q, cityName, radiusKm) ==
    /\ ~panicked
    /\ query[q].live
    /\ \E cityRegions \in
            {LET all == allRegions(heap, order)
             IN  ByCity(Content(all.heap, all.set), cityName) : order \in Orders} :
        IF Len(cityRegions) = 0
        THEN Commit(heap, query, alone, Returns("NearCity", q), held, FALSE)
        ELSE LET ref == cityRegions[1]
             IN  Assign(q, "NearCity",
                        Near(Regions(q), ref.Latitude, ref.Longitude, radiusKm),
                        Near(Alone(q), ref.Latitude, ref.Longitude, radiusKm))

\* NearCity as it would be if it searched all the Regions of the catalog
\* around the city, as NearNamespace.City does, and not the Query's Set
QueryNearCityOfCatalog(q, cityName, radiusKm) ==
    /\ ~panicked
    /\ query[q].live
    /\ \E order \in Orders :
        LET all == Concat([i \in DOMAIN order |-> Content(heap, regionRegistry[order[i]])])
            cityRegions == ByCity(all, cityName)
        IN  IF Len(cityRegions) = 0
            THEN Commit(heap,
                        [query EXCEPT ![q].regions = NilSlice],
                        [alone EXCEPT ![q].regions = << >>],
                        Returns("NearCity", q), held, FALSE)
            ELSE LET ref == cityRegions[1]
                 IN  Assign(q, "NearCity",
                            Near(all, ref.Latitude, ref.Longitude, radiusKm),
                            Near(all, ref.Latitude, ref.Longitude, radiusKm))

\* NearCity: no Region of the catalog in the city makes the Set empty;
\* otherwise Near around the first Region of allRegions().ByCity(cityName)
QueryNearCity(q, cityName, radiusKm) ==
    /\ ~panicked
    /\ query[q].live
    /\ \E cityRegions \in
            {LET all == allRegions(heap, order)
             IN  ByCity(Content(all.heap, all.set), cityName) : order \in Orders} :
        IF Len(cityRegions) = 0
        THEN Commit(heap,
                    [query EXCEPT ![q].regions = NilSlice],
                    [alone EXCEPT ![q].regions = << >>],
                    Returns("NearCity", q), held, FALSE)
        ELSE LET ref == cityRegions[1]
             IN  Assign(q, "NearCity",
                        Near(Regions(q), ref.Latitude, ref.Longitude, radiusKm),
                        Near(Alone(q), ref.Latitude, ref.Longitude, radiusKm))

\* the custom predicates handed to Filter
Predicates == {"north", "none"}
Holds(predicate, r) ==
    IF predicate = "north" THEN r.Latitude > 0 ELSE FALSE
Satisfying(s, predicate) == Filter(s, [i \in DOMAIN s |-> Holds(predicate, s[i])])

QueryFilter(q, predicate) ==
    Assign(q, "Filter", Satisfying(Regions(q), predicate), Satisfying(Alone(q), predicate))

QuerySortByDistance(q, lat, lng) ==
    InPlace(q, "SortByDistance", SortByDistance(Regions(q), lat, lng),
            SortByDistance(Alone(q), lat, lng))
QuerySortByName(q) == InPlace(q, "SortByName", SortByName(Regions(q)), SortByName(Alone(q)))
QuerySortByProvider(q) ==
    InPlace(q, "SortByProvider", SortByProvider(Regions(q)), SortByProvider(Alone(q)))
QuerySortByCountry(q) ==
    InPlace(q, "SortByCountry", SortByCountry(Regions(q)), SortByCountry(Alone(q)))

\* Limit as it would be if it kept one element more: q.regions[:n+1]
QueryLimitOneMore(q, n) ==
    /\ ~panicked
    /\ query[q].live
    /\ IF n < query[q].regions.len
       THEN IF n < 0
            THEN Commit(heap, query, alone, Returns("Limit", q), held, TRUE)
            ELSE Commit(heap,
                        [query EXCEPT ![q].regions = [arr |-> @.arr, len |-> n + 1]],
                        [alone EXCEPT ![q].regions = SubSeq(@, 1, n + 1)],
                        Returns("Limit", q), held, FALSE)
       ELSE Commit(heap, query, alone, Returns("Limit", q), held, FALSE)

\* Limit: q.regions[:n] when n < len(q.regions); slicing with a negative n
\* panics
QueryLimit(q, n) ==
    /\ ~panicked
    /\ query[q].live
    /\ IF n < query[q].regions.len
       THEN IF n < 0
            THEN Commit(heap, query, alone, Returns("Limit", q), held, TRUE)
            ELSE Commit(heap,
                        [query EXCEPT ![q].regions = [arr |-> @.arr, len |-> n]],
                        [alone EXCEPT ![q].regions = SubSeq(@, 1, n)],
                        Returns("Limit", q), held, FALSE)
       ELSE Commit(heap, query, alone, Returns("Limit", q), held, FALSE)

\* a terminal call: it changes nothing and returns rt
Return(q, rt) ==
    /\ ~panicked
    /\ query[q].live
    /\ Commit(heap, query, alone, rt, held, FALSE)

\* First as it would be if it returned the newest accumulated error
QueryFirstNewest(q) ==
    LET r == SetFirst(Regions(q))
    IN  Return(q, IF Len(query[q].errors) > 0
                  THEN [Returns("First", q) EXCEPT
                            !.err = query[q].errors[Len(query[q].errors)]]
                  ELSE [Returns("First", q) EXCEPT !.region = r.region, !.err = r.err])

QueryFirst(q) ==
    LET r == SetFirst(Regions(q))
    IN  Return(q, IF Len(query[q].errors) > 0
                  THEN [Returns("First", q) EXCEPT !.err = query[q].errors[1]]
                  ELSE [Returns("First", q) EXCEPT !.region = r.region, !.err = r.err])

QueryLast(q) ==
    LET r == SetLast(Regions(q))
    IN  Return(q, IF Len(query[q].errors) > 0
                  THEN [Returns("Last", q) EXCEPT !.err = query[q].errors[1]]
                  ELSE [Returns("Last", q) EXCEPT !.region = r.region, !.err = r.err])

\* Exec as it would be if accumulated errors made it return no Set
QueryExecShortCircuit(q) ==
    Return(q, [Returns("Exec", q) EXCEPT
                   !.set = IF Len(query[q].errors) > 0 THEN NilSlice ELSE query[q].regions])

QueryExec(q) ==
    Return(q, [Returns("Exec", q) EXCEPT !.set = query[q].regions])

QueryExecWithErrors(q) ==
    Return(q, [Returns("ExecWithErrors", q) EXCEPT
                   !.set = query[q].regions, !.errors = query[q].errors])

\* Count, Has
QueryCount(q) == Return(q, [Returns("Count", q) EXCEPT !.count = query[q].regions.len])
QueryHas(q) == Return(q, [Returns("Has", q) EXCEPT !.ok = query[q].regions.len > 0])

\* Codes, Names: one entry per element
QueryCodes(q) ==
    Return(q, [Returns("Codes", q) EXCEPT
                   !.list = [i \in DOMAIN Regions(q) |-> Regions(q)[i].Code]])
QueryNames(q) ==
    Return(q, [Returns("Names", q) EXCEPT
                   !.list = [i \in DOMAIN Regions(q) |-> Regions(q)[i].Name]])

\* the keys of the map[string]bool that has values[i] set for every i
Keys(values) == {values[i] : i \in DOMAIN values}

\* the slices that appending the keys of a map, ranged over in any order,
\* can give
RangeOver(keys) ==
    {f \in [1..Cardinality(keys) -> keys] :
        \A i \in DOMAIN f, j \in DOMAIN f : i # j => f[i] # f[j]}

\* Providers as it would be if it appended the Provider of every element
QueryProvidersOfAll(q) ==
    Return(q, [Returns("Providers", q) EXCEPT
                   !.list = [i \in DOMAIN Regions(q) |-> Regions(q)[i].Provider]])

\* Providers, Countries, Cities: the values of the field as keys of a map,
\* then the keys of the map
QueryProviders(q) ==
    \E providers \in RangeOver(Keys([i \in DOMAIN Regions(q) |-> Regions(q)[i].Provider])) :
        Return(q, [Returns("Providers", q) EXCEPT !.list = providers])
QueryCountries(q) ==
    \E countries \in RangeOver(Keys([i \in DOMAIN Regions(q) |-> Regions(q)[i].Country])) :
        Return(q, [Returns("Countries", q) EXCEPT !.list = countries])
QueryCities(q) ==
    \E cities \in RangeOver(Keys([i \in DOMAIN Regions(q) |-> Regions(q)[i].City])) :
        Return(q, [Returns("Cities", q) EXCEPT !.list = cities])

\* the Regions a range over the registry and over each of its lists meets,
\* the codes enumerated in order
Registered(order) ==
    Concat([i \in DOMAIN order |-> Content(heap, regionRegistry[order[i]])])

\* a discovery function of the package returning list
Discovered(op, list) ==
    /\ ~panicked
    /\ Commit(heap, query, alone, [Returns(op, "") EXCEPT !.list = list], held, FALSE)

\* Providers, Countries, Cities of the package: the same over the registry
Providers ==
    \E order \in Orders :
        \E providers \in RangeOver(Keys([i \in DOMAIN Registered(order) |->
                                             Registered(order)[i].Provider])) :
            Discovered("Providers", providers)
Countries ==
    \E order \in Orders :
        \E countries \in RangeOver(Keys([i \in DOMAIN Registered(order) |->
                                             Registered(order)[i].Country])) :
            Discovered("Countries", countries)
Cities ==
    \E order \in Orders :
        \E cities \in RangeOver(Keys([i \in DOMAIN Registered(order) |->
                                             Registered(order)[i].City])) :
            Discovered("Cities", cities)

(***************************************************************************)
(* Lookups of the package, and what a caller does with a collection it     *)
(* got from one.                                                           *)
(***************************************************************************)
\* Is (RegionQuery): the registry's list of the code, or an empty one
Is(code) ==
    IF code \in DOMAIN regionRegistry THEN regionRegistry[code] ELSE NilSlice

\* Is(code).All(): the slice the RegionQuery holds
IsAll(code) ==
    /\ ~panicked
    /\ Commit(heap, query, alone,
              [Returns("Is.All", "") EXCEPT !.code = code, !.set = Is(code)],
              held, FALSE)

\* Are as it would be if its error named only the first code not found
AreNamingFirst(codes) ==
    LET lists == [i \in DOMAIN codes |-> Content(heap, Is(codes[i]))]
        notFound == SelectSeq(codes, LAMBDA c : c \notin DOMAIN regionRegistry)
        r == NewSet(heap, Concat(lists))
    IN  /\ ~panicked
        /\ Commit(r.heap, query, alone,
                  [Returns("Are", "") EXCEPT
                       !.arg = codes,
                       !.set = r.set,
                       !.err = IF Len(notFound) > 0
                               THEN [kind |-> "region not found",
                                     codes |-> <<Head(notFound)>>, list |-> TRUE]
                               ELSE NoError],
                  held, FALSE)

\* Are: a new Set with the lists of the codes found appended in the order
\* given, and one error naming the codes not found
Are(codes) ==
    LET lists == [i \in DOMAIN codes |-> Content(heap, Is(codes[i]))]
        notFound == SelectSeq(codes, LAMBDA c : c \notin DOMAIN regionRegistry)
        r == NewSet(heap, Concat(lists))
    IN  /\ ~panicked
        /\ Commit(r.heap, query, alone,
                  [Returns("Are", "") EXCEPT
                       !.arg = codes,
                       !.set = r.set,
                       !.err = IF Len(notFound) > 0
                               THEN [kind |-> "region not found", codes |-> notFound,
                                     list |-> TRUE]
                               ELSE NoError],
                  held, FALSE)

\* fmt.Errorf("%w", ErrRegionNotFound): the sentinel, naming no code
ErrNotFound == [kind |-> "region not found", codes |-> << >>, list |-> FALSE]

\* fmt.Errorf(context + " %w", err): err with words before it; it still
\* is the error it wraps
Wrap(context, err) ==
    [kind |-> err.kind, codes |-> err.codes, list |-> err.list, context |-> context]

\* RegionQuery.First as it would be if it returned no error for an empty
\* RegionQuery
RegionQueryFirstUnchecked(regions) ==
    IF regions.len = 0
    THEN [region |-> ZeroRegion, err |-> NoError]
    ELSE [region |-> Content(heap, regions)[1], err |-> NoError]

\* RegionQuery.First: the first Region of the RegionQuery
RegionQueryFirst(regions) ==
    IF regions.len = 0
    THEN [region |-> ZeroRegion, err |-> ErrNotFound]
    ELSE [region |-> Content(heap, regions)[1], err |-> NoError]

\* Is(code).First()
IsFirst(code) ==
    LET r == RegionQueryFirst(Is(code))
    IN  /\ ~panicked
        /\ Commit(heap, query, alone,
                  [Returns("Is.First", "") EXCEPT
                       !.code = code, !.region = r.region, !.err = r.err],
                  held, FALSE)

\* MustIs: Is(code).First(), panicking with the error (kept in ret.err)
MustIs(code) ==
    LET r == RegionQueryFirst(Is(code))
    IN  /\ ~panicked
        /\ Commit(heap, query, alone,
                  [Returns("MustIs", "") EXCEPT
                       !.code = code, !.region = r.region, !.err = r.err],
                  held, r.err # NoError)

\* Distance (of the package) as it would be if it resolved the destination
\* before the source
CodeDistanceToFirst(from, to) ==
    LET f == RegionQueryFirst(Is(from))
        t == RegionQueryFirst(Is(to))
        rt == [Returns("Distance", "") EXCEPT !.arg = <<from, to>>]
    IN  /\ ~panicked
        /\ Commit(heap, query, alone,
                  IF t.err # NoError
                  THEN [rt EXCEPT !.err = Wrap("destination region", t.err)]
                  ELSE IF f.err # NoError
                  THEN [rt EXCEPT !.err = Wrap("source region", f.err)]
                  ELSE [rt EXCEPT !.dist = Distance(f.region, t.region)],
                  held, FALSE)

\* Distance (of the package): the distance between the first Regions of two
\* codes
CodeDistance(from, to) ==
    LET f == RegionQueryFirst(Is(from))
        t == RegionQueryFirst(Is(to))
        rt == [Returns("Distance", "") EXCEPT !.arg = <<from, to>>]
    IN  /\ ~panicked
        /\ Commit(heap, query, alone,
                  IF f.err # NoError
                  THEN [rt EXCEPT !.err = Wrap("source region", f.err)]
                  ELSE IF t.err # NoError
                  THEN [rt EXCEPT !.err = Wrap("destination region", t.err)]
                  ELSE [rt EXCEPT !.dist = Distance(f.region, t.region)],
                  held, FALSE)

\* math.MaxFloat64, as a value above every distance of HaversineKm
MaxFloat64 == 2147483647

\* errors.New("no other regions found")
ErrNoOtherRegions == [kind |-> "no other regions found", codes |-> << >>, list |-> FALSE]

\* the loop of Closest as it would be if it took the first Region of
\* another code without comparing distances
ClosestInFirstOther(target, to, all) ==
    LET scan[i \in 0..Len(all)] ==
            IF i = 0 THEN [closest |-> ZeroRegion, minDistance |-> MaxFloat64]
            ELSE IF all[i].Code = to \/ scan[i - 1].closest # ZeroRegion THEN scan[i - 1]
            ELSE [closest |-> all[i], minDistance |-> Distance(target, all[i])]
    IN  scan[Len(all)].closest

\* the loop of Closest over the Regions of the registry in the order all:
\* the Region of another code nearest to target, the first one met among
\* equally near ones, or the zero Region
ClosestIn(target, to, all) ==
    LET scan[i \in 0..Len(all)] ==
            IF i = 0 THEN [closest |-> ZeroRegion, minDistance |-> MaxFloat64]
            ELSE IF all[i].Code = to THEN scan[i - 1]
            ELSE IF Distance(target, all[i]) < scan[i - 1].minDistance
            THEN [closest |-> all[i], minDistance |-> Distance(target, all[i])]
            ELSE scan[i - 1]
    IN  scan[Len(all)].closest

\* Closest: the map is enumerated in any order
Closest(to) ==
    LET t == RegionQueryFirst(Is(to))
        rt == [Returns("Closest", "") EXCEPT !.code = to]
    IN  /\ ~panicked
        /\ \E order \in Orders :
            LET all == Concat([i \in DOMAIN order |->
                                  Content(heap, regionRegistry[order[i]])])
                closest == ClosestIn(t.region, to, all)
            IN  Commit(heap, query, alone,
                       IF t.err # NoError THEN [rt EXCEPT !.err = t.err]
                       ELSE IF closest.Code = "" THEN [rt EXCEPT !.err = ErrNoOtherRegions]
                       ELSE [rt EXCEPT !.region = closest],
                       held, FALSE)

\* InCountry: allRegions().ByCountry(name)
InCountry(name) ==
    /\ ~panicked
    /\ \E order \in Orders :
        LET all == allRegions(heap, order)
            r == NewSet(all.heap, ByCountry(Content(all.heap, all.set), name))
        IN  Commit(r.heap, query, alone,
                   [Returns("InCountry", "") EXCEPT !.set = r.set], held, FALSE)

\* the caller keeps the collection the latest call returned
Keep ==
    /\ ~panicked
    /\ ret.op \in {"Is.All", "Are", "InCountry", "Exec", "ExecWithErrors"}
    /\ ret.set.len > 0
    /\ Commit(heap, query, alone, NoReturn,
              [set |-> ret.set, was |-> Content(heap, ret.set)], FALSE)

\* the caller overwrites element i of the collection it keeps
CallerWrite(i) ==
    /\ ~panicked
    /\ i \in 1..held.set.len
    /\ Content(heap, held.set)[i] # ZeroRegion
    /\ Commit(WriteThrough(heap, held.set, [Content(heap, held.set) EXCEPT ![i] = ZeroRegion]),
              query, alone, NoReturn, held, FALSE)

\* the caller exchanges the first two elements of the collection it keeps
CallerSwap ==
    /\ ~panicked
    /\ held.set.len >= 2
    /\ Commit(WriteThrough(heap, held.set, Swap(Content(heap, held.set), 1, 2)),
              query, alone, NoReturn, held, FALSE)

(***************************************************************************)
(* Calls of the Set methods on given Sets: A is the receiver, B the        *)
(* argument of the methods that take a second Set.  One call is made on    *)
(* each pair given (and Difference also after Intersect, whose result the  *)
(* caller then keeps); methods of one Set are called with B empty.         *)
(***************************************************************************)
\* the Regions the given Sets are made of: two share a Code
Pool == {TokyoAWS, TokyoGCP, SaoPauloAWS}

\* the Sets of at most n Regions of the Pool
SetsUpTo(n) == UNION {[1..k -> Pool] : k \in 0..n}

\* the receiver and the argument
SetA == Content(heap, sets.A)
SetB == Content(heap, sets.B)

\* the end of a call on the given Sets: the heap it leaves, what it returns
\* and what the caller keeps
Done(h, rt, hd) ==
    /\ heap' = h
    /\ ret' = rt
    /\ held' = hd
    /\ UNCHANGED <<regionRegistry, loaded, query, alone, gor, sets, panicked, prog, pc>>

\* a method that returns a new Set holding result
Returning(op, arg, result) ==
    LET r == NewSet(heap, result)
    IN  Done(r.heap, [NoReturn EXCEPT !.op = op, !.arg = arg, !.set = r.set], held)

CallUnion == ret.op = "none" /\ Returning("Union", << >>, Union(SetA, SetB))
CallIntersect == ret.op = "none" /\ Returning("Intersect", << >>, Intersect(SetA, SetB))
CallDifference ==
    /\ ret.op \in {"none", "Intersect"}
    /\ LET r == NewSet(heap, Difference(SetA, SetB))
       IN  Done(r.heap,
                [NoReturn EXCEPT !.op = "Difference", !.arg = <<ret.op>>, !.set = r.set],
                IF ret.op = "Intersect"
                THEN [set |-> ret.set, was |-> Content(heap, ret.set)]
                ELSE held)

\* the methods of one Set
Alone1 == ret.op = "none" /\ sets.B.len = 0

CallFirst ==
    /\ Alone1
    /\ Done(heap, [NoReturn EXCEPT !.op = "Set.First", !.region = SetFirst(SetA).region,
                                   !.err = SetFirst(SetA).err], held)
CallLast ==
    /\ Alone1
    /\ Done(heap, [NoReturn EXCEPT !.op = "Set.Last", !.region = SetLast(SetA).region,
                                   !.err = SetLast(SetA).err], held)

\* a sort writes the elements of the receiver in place
Sorting(op, arg, sorted) ==
    Done(WriteThrough(heap, sets.A, sorted), [NoReturn EXCEPT !.op = op, !.arg = arg], held)

CallSortByName == Alone1 /\ Sorting("SortByName", << >>, SortByName(SetA))
CallSortByProvider == Alone1 /\ Sorting("SortByProvider", << >>, SortByProvider(SetA))
CallSortByCountry == Alone1 /\ Sorting("SortByCountry", << >>, SortByCountry(SetA))
CallSortByDistance(lat, lng) ==
    Alone1 /\ Sorting("SortByDistance", <<lat, lng>>, SortByDistance(SetA, lat, lng))

CallFilter(predicate) == Alone1 /\ Returning("Filter", <<predicate>>, Satisfying(SetA, predicate))
CallOnProvider(name) == Alone1 /\ Returning("OnProvider", <<name>>, OnProvider(SetA, name))
CallByCountry(name) == Alone1 /\ Returning("ByCountry", <<name>>, ByCountry(SetA, name))
CallByCity(name) == Alone1 /\ Returning("ByCity", <<name>>, ByCity(SetA, name))
CallByContinent(name) == Alone1 /\ Returning("ByContinent", <<name>>, ByContinent(SetA, name))
CallActiveOnly == Alone1 /\ Returning("ActiveOnly", << >>, ActiveOnly(SetA))
CallNear(lat, lng, radiusKm) ==
    Alone1 /\ Returning("Near", <<lat, lng, radiusKm>>, Near(SetA, lat, lng, radiusKm))

\* s[i].IsNear(lat, lng, radiusKm)
CallIsNear(i, lat, lng, radiusKm) ==
    /\ Alone1
    /\ i \in 1..Len(SetA)
    /\ Done(heap,
            [NoReturn EXCEPT !.op = "IsNear", !.arg = <<i, lat, lng, radiusKm>>,
                             !.ok = IsNear(SetA[i], lat, lng, radiusKm)],
            held)

\* radii, among them the distance (143 km) from the point (35, 139) to a
\* Region of Pool, and one kilometre less
NearRadii == RadiusArgs \cup {142, 143}

InitSet ==
    /\ \E a \in SetsUpTo(MaxLen), b \in SetsUpTo(MaxOther) :
        /\ heap = <<a, b>>
        /\ sets = [A |-> [arr |-> 1, len |-> Len(a)], B |-> [arr |-> 2, len |-> Len(b)],
                   wasA |-> a, wasB |-> b]
    /\ regionRegistry = << >>
    /\ loaded = << >>
    /\ query = [q \in Queries |-> NoQuery]
    /\ alone = [q \in Queries |-> [snap |-> << >>, regions |-> << >>, errors |-> << >>]]
    /\ ret = NoReturn
    /\ held = NotHeld
    /\ gor = [g \in Goroutines |-> Idle]
    /\ panicked = FALSE
    /\ prog = << >>
    /\ pc = 0

NextSet ==
    \/ CallUnion
    \/ CallIntersect
    \/ CallDifference
    \/ CallFirst
    \/ CallLast
    \/ CallSortByName
    \/ CallSortByProvider
    \/ CallSortByCountry
    \/ \E pt \in PointArgs : CallSortByDistance(pt[1], pt[2])
    \/ \E predicate \in Predicates : CallFilter(predicate)
    \/ \E name \in ProviderArgs : CallOnProvider(name)
    \/ \E name \in CountryArgs : CallByCountry(name)
    \/ \E name \in CityArgs : CallByCity(name)
    \/ \E name \in ContinentArgs : CallByContinent(name)
    \/ CallActiveOnly
    \/ \E pt \in PointArgs, r \in NearRadii : CallNear(pt[1], pt[2], r)
    \/ \E i \in 1..MaxLen, pt \in PointArgs, r \in NearRadii : CallIsNear(i, pt[1], pt[2], r)

SpecSet == InitSet /\ [][NextSet]_vars

(***************************************************************************)
(* The callers.  A free caller (prog empty) makes any call on Query q1 at  *)
(* any time; a straight-line caller makes the calls of prog in order.      *)
(***************************************************************************)
Load(catalog) ==
    /\ regionRegistry =
          [c \in {catalog[i][1].Code : i \in DOMAIN catalog} |->
              LET i == CHOOSE k \in DOMAIN catalog : catalog[k][1].Code = c
              IN  [arr |-> i, len |-> Len(catalog[i])]]
    /\ heap = [i \in DOMAIN catalog |-> catalog[i]]
    /\ loaded = [c \in {catalog[i][1].Code : i \in DOMAIN catalog} |->
                    catalog[CHOOSE k \in DOMAIN catalog : catalog[k][1].Code = c]]
    /\ query = [q \in Queries |-> NoQuery]
    /\ alone = [q \in Queries |-> [snap |-> << >>, regions |-> << >>, errors |-> << >>]]
    /\ ret = NoReturn
    /\ held = NotHeld
    /\ gor = [g \in Goroutines |-> Idle]
    /\ sets = NoSets
    /\ panicked = FALSE
    /\ pc = 0

Call(op) == [op |-> op, q |-> "q1", name |-> "", code |-> "", radius |-> 0]

\* NewQuery().NearRegion(code, radius).ByProvider(name).ExecWithErrors()
NearRegionChains ==
    {<<Call("NewQuery"),
       [Call("NearRegion") EXCEPT !.code = code, !.radius = radius],
       [Call("ByProvider") EXCEPT !.name = name],
       Call("ExecWithErrors")>> :
        code \in CodeArgs, radius \in RadiusArgs, name \in ProviderArgs}

\* NewQuery().InCountry(country).ByProvider(name).ActiveOnly().Exec()
FilterChains ==
    {<<Call("NewQuery"),
       [Call("InCountry") EXCEPT !.name = country],
       [Call("ByProvider") EXCEPT !.name = name],
       Call("ActiveOnly"),
       Call("Exec")>> :
        country \in CountryArgs \cup {"Japan"}, name \in ProviderArgs \cup {"aws"}}

\* NewQuery().NearCity(city, radius).ByProvider(name).Exec()
NearCityChains ==
    {<<Call("NewQuery"),
       [Call("NearCity") EXCEPT !.name = city, !.radius = radius],
       [Call("ByProvider") EXCEPT !.name = name],
       Call("Exec")>> :
        city \in CityArgs, radius \in RadiusArgs, name \in ProviderArgs}

Programs == NearRegionChains \cup FilterChains \cup NearCityChains

Init ==
    /\ \E catalog \in Catalogs : Load(catalog)
    /\ prog \in {<< >>} \cup Programs

\* the Query a free caller works on
Free == IF prog = << >> THEN {"q1"} ELSE {}

Chain(q) ==
    \/ \E name \in CountryArgs : QueryInCountry(q, name)
    \/ \E name \in CityArgs : QueryInCity(q, name)
    \/ \E name \in ContinentArgs : QueryInContinent(q, name)
    \/ QueryInAsia(q)
    \/ QueryInEurope(q)
    \/ QueryInAmericas(q)
    \/ QueryInOceania(q)
    \/ QueryInAfrica(q)
    \/ \E name \in ProviderArgs : QueryByProvider(q, name)
    \/ QueryActiveOnly(q)
    \/ QueryPreviewOnly(q)
    \/ QueryDeprecatedOnly(q)
    \/ \E pt \in PointArgs, r \in RadiusArgs : QueryNear(q, pt[1], pt[2], r)
    \/ \E code \in CodeArgs, r \in RadiusArgs : QueryNearRegion(q, code, r)
    \/ \E name \in CityArgs, r \in RadiusArgs : QueryNearCity(q, name, r)
    \/ \E predicate \in Predicates : QueryFilter(q, predicate)
    \/ \E pt \in PointArgs : QuerySortByDistance(q, pt[1], pt[2])
    \/ QuerySortByName(q)
    \/ QuerySortByProvider(q)
    \/ QuerySortByCountry(q)
    \/ \E n \in LimitArgs : QueryLimit(q, n)

Terminals(q) ==
    \/ QueryFirst(q)
    \/ QueryLast(q)
    \/ QueryExec(q)
    \/ QueryExecWithErrors(q)

\* the next call of a straight-line caller
Run(c) ==
    \/ c.op = "NewQuery" /\ NewQuery(c.q)
    \/ c.op = "NearRegion" /\ QueryNearRegion(c.q, c.code, c.radius)
    \/ c.op = "NearCity" /\ QueryNearCity(c.q, c.name, c.radius)
    \/ c.op = "InCountry" /\ QueryInCountry(c.q, c.name)
    \/ c.op = "ByProvider" /\ QueryByProvider(c.q, c.name)
    \/ c.op = "ActiveOnly" /\ QueryActiveOnly(c.q)
    \/ c.op = "Exec" /\ QueryExec(c.q)
    \/ c.op = "ExecWithErrors" /\ QueryExecWithErrors(c.q)

Script == pc < Len(prog) /\ Run(prog[pc + 1])

Next ==
    \/ \E q \in Free : NewQuery(q)
    \/ \E q \in Free : Chain(q)
    \/ \E q \in Free : Terminals(q)
    \/ Script

Spec == Init /\ [][Next]_vars

(***************************************************************************)
(* Two Query instances, their calls interleaved in any order.              *)
(***************************************************************************)
InitTwo ==
    /\ \E catalog \in {CatalogPerCode, CatalogOneCode} : Load(catalog)
    /\ prog = << >>

ChainTwo(q) ==
    \/ QueryByProvider(q, "AWS")
    \/ QueryNearRegion(q, "bogus", 300)
    \/ QueryNearCity(q, "tokyo", 300)
    \/ QuerySortByName(q)
    \/ QuerySortByProvider(q)
    \/ QuerySortByDistance(q, 41, -74)
    \/ QueryLimit(q, 1)

TerminalsTwo(q) ==
    \/ QueryFirst(q)
    \/ QueryExecWithErrors(q)

NextTwo ==
    \/ \E q \in Queries : NewQuery(q)
    \/ \E q \in Queries : ChainTwo(q)
    \/ \E q \in Queries : TerminalsTwo(q)

SpecTwo == InitTwo /\ [][NextTwo]_vars

(***************************************************************************)
(* A caller that looks Regions up, keeps a collection it was given and     *)
(* writes to it.                                                           *)
(***************************************************************************)
InitCaller ==
    /\ \E catalog \in {CatalogPerCode, CatalogOneCode} : Load(catalog)
    /\ prog = << >>

NextCaller ==
    \/ \E code \in LookupArgs : IsAll(code)
    \/ \E codes \in AreArgs : Are(codes)
    \/ \E name \in CountryArgs : InCountry(name)
    \/ NewQuery("q1")
    \/ QueryExec("q1")
    \/ Keep
    \/ \E i \in 1..MaxWrite : CallerWrite(i)
    \/ CallerSwap

SpecCaller == InitCaller /\ [][NextCaller]_vars

(***************************************************************************)
(* A caller that keeps the Set a terminal call returned and goes on        *)
(* calling chain methods of the same Query.                                *)
(***************************************************************************)
InitKept ==
    /\ \E catalog \in {CatalogCity, CatalogCased} : Load(catalog)
    /\ prog = << >>

ContinentNames == ContinentArgs \cup {"North America"}

NextKept ==
    \/ NewQuery("q1")
    \/ \E name \in ContinentNames : QueryInContinent("q1", name)
    \/ QueryInAsia("q1")
    \/ QueryInEurope("q1")
    \/ QueryInAmericas("q1")
    \/ QueryInOceania("q1")
    \/ QueryInAfrica("q1")
    \/ \E name \in CityArgs, r \in RadiusArgs : QueryNearCity("q1", name, r)
    \/ \E pt \in PointArgs : QuerySortByDistance("q1", pt[1], pt[2])
    \/ QuerySortByName("q1")
    \/ QuerySortByProvider("q1")
    \/ QuerySortByCountry("q1")
    \/ QueryLimit("q1", 1)
    \/ QueryExec("q1")
    \/ QueryExecWithErrors("q1")
    \/ Keep

SpecKept == InitKept /\ [][NextKept]_vars

(***************************************************************************)
(* Chains written out call by call, on one Query or on two.                *)
(***************************************************************************)
Step(op) == [op |-> op, q |-> "q1", name |-> "", lat |-> 0, lng |-> 0, radius |-> 0, n |-> 0]

\* the calls of steps, made on Query q
On(q, steps) == [i \in DOMAIN steps |-> [steps[i] EXCEPT !.q = q]]

\* the filtering chain steps, with their arguments
FilterSteps ==
    {[Step("InCountry") EXCEPT !.name = name] : name \in CountryArgs}
    \cup {[Step("InCity") EXCEPT !.name = name] : name \in CityArgs}
    \cup {[Step("InContinent") EXCEPT !.name = name] : name \in ContinentArgs}
    \cup {[Step("ByProvider") EXCEPT !.name = name] : name \in ProviderArgs}
    \cup {Step("ActiveOnly"), Step("PreviewOnly"), Step("DeprecatedOnly")}
    \cup {[Step("Near") EXCEPT !.lat = pt[1], !.lng = pt[2], !.radius = r] :
             pt \in PointArgs, r \in {300, 11000}}
    \cup {[Step("Filter") EXCEPT !.name = predicate] : predicate \in Predicates}

\* what a chain may have done before the calls looked at
Before == {<< >>, <<[Step("Limit") EXCEPT !.n = 2]>>, <<[Step("ByProvider") EXCEPT !.name = "AWS"]>>}

\* q.SortByDistance(lat, lng).Limit(n).Exec(), the caller having taken the
\* Set of q with Exec() first
NearestChains ==
    {<<Step("NewQuery")>> \o before \o
     <<Step("Exec"), Step("Keep"),
       [Step("SortByDistance") EXCEPT !.lat = pt[1], !.lng = pt[2]],
       [Step("Limit") EXCEPT !.n = n],
       Step("Exec")>> :
        before \in Before, pt \in PointArgs, n \in 0..MaxLimit}

\* two filtering steps in one order on q1 and in the other order on q2
CommuteChains ==
    {On("q1", <<Step("NewQuery")>>) \o On("q2", <<Step("NewQuery")>>)
       \o On("q1", before \o <<a, b>>) \o On("q2", before \o <<b, a>>) :
        before \in Before, a \in FilterSteps, b \in FilterSteps}

\* one filtering step twice on q1 and once on q2
TwiceChains ==
    {On("q1", <<Step("NewQuery")>>) \o On("q2", <<Step("NewQuery")>>)
       \o On("q1", before \o <<a, a>>) \o On("q2", before \o <<a>>) :
        before \in Before, a \in FilterSteps}

Perform(c) ==
    \/ c.op = "NewQuery" /\ NewQuery(c.q)
    \/ c.op = "InCountry" /\ QueryInCountry(c.q, c.name)
    \/ c.op = "InCity" /\ QueryInCity(c.q, c.name)
    \/ c.op = "InContinent" /\ QueryInContinent(c.q, c.name)
    \/ c.op = "ByProvider" /\ QueryByProvider(c.q, c.name)
    \/ c.op = "ActiveOnly" /\ QueryActiveOnly(c.q)
    \/ c.op = "PreviewOnly" /\ QueryPreviewOnly(c.q)
    \/ c.op = "DeprecatedOnly" /\ QueryDeprecatedOnly(c.q)
    \/ c.op = "Near" /\ QueryNear(c.q, c.lat, c.lng, c.radius)
    \/ c.op = "Filter" /\ QueryFilter(c.q, c.name)
    \/ c.op = "SortByDistance" /\ QuerySortByDistance(c.q, c.lat, c.lng)
    \/ c.op = "Limit" /\ QueryLimit(c.q, c.n)
    \/ c.op = "Exec" /\ QueryExec(c.q)
    \/ c.op = "Keep" /\ Keep

InitChains ==
    \/ /\ \E catalog \in {CatalogShared, CatalogThree} : Load(catalog)
       /\ prog \in NearestChains
    \/ /\ Load(CatalogShared)
       /\ prog \in CommuteChains \cup TwiceChains

NextChains == pc < Len(prog) /\ Perform(prog[pc + 1])

SpecChains == InitChains /\ [][NextChains]_vars

(***************************************************************************)
(* A caller that asks a Query, and the package, for projections.           *)
(***************************************************************************)
InitProject ==
    /\ \E catalog \in {CatalogPerCode, CatalogShared} : Load(catalog)
    /\ prog = << >>

NextProject ==
    \/ NewQuery("q1")
    \/ \E name \in ProviderArgs : QueryByProvider("q1", name)
    \/ \E name \in CountryArgs : QueryInCountry("q1", name)
    \/ QuerySortByName("q1")
    \/ QueryCount("q1")
    \/ QueryHas("q1")
    \/ QueryCodes("q1")
    \/ QueryNames("q1")
    \/ QueryProviders("q1")
    \/ QueryCountries("q1")
    \/ QueryCities("q1")
    \/ Providers
    \/ Countries
    \/ Cities

SpecProject == InitProject /\ [][NextProject]_vars

(***************************************************************************)
(* A caller that only looks Regions up, by code.                           *)
(***************************************************************************)
InitLookup ==
    /\ \E catalog \in {CatalogShared, CatalogOneCode, CatalogThree} : Load(catalog)
    /\ prog = << >>

NextLookup ==
    \/ \E code \in LookupCodes : IsFirst(code)
    \/ \E code \in LookupCodes : MustIs(code)
    \/ \E codes \in CodeLists : Are(codes)
    \/ \E from \in LookupCodes, to \in LookupCodes : CodeDistance(from, to)
    \/ \E to \in LookupCodes : Closest(to)

SpecLookup == InitLookup /\ [][NextLookup]_vars

(***************************************************************************)
(* Two goroutines calling chain methods of one Query at the same time.     *)
(* The methods take no lock, so a call is a read of the field it works on  *)
(* followed, after any steps of the other goroutine, by the write of that  *)
(* field to a value computed from what was read.  (Each read and each      *)
(* write of a slice header is taken as one step.)                          *)
(***************************************************************************)
RaceCalls ==
    {[op |-> "NearRegion", arg |-> "bogus"], [op |-> "NearRegion", arg |-> "nowhere"],
     [op |-> "ByProvider", arg |-> "AWS"], [op |-> "InCountry", arg |-> "japan"]}

\* goroutine g enters call c on Query q1
Enter(g, c) ==
    /\ ~panicked
    /\ query["q1"].live
    /\ gor[g].at = "idle"
    /\ gor' = [gor EXCEPT ![g] = [at |-> "entered", op |-> c.op, arg |-> c.arg, seen |-> << >>]]
    /\ UNCHANGED <<regionRegistry, heap, loaded, query, alone, ret, held, sets, panicked,
                   prog, pc>>

\* g reads the field its call works on: q.errors in NearRegion (the code
\* does not resolve), q.regions in a filter
ReadField(g) ==
    /\ gor[g].at = "entered"
    /\ gor' = [gor EXCEPT ![g].at = "read",
                          ![g].seen = IF gor[g].op = "NearRegion"
                                      THEN query["q1"].errors
                                      ELSE query["q1"].regions]
    /\ UNCHANGED <<regionRegistry, heap, loaded, query, alone, ret, held, sets, panicked,
                   prog, pc>>

\* g assigns the field: q.errors = append(q.errors, err), or
\* q.regions = q.regions.<filter>(arg), on the value it read
WriteField(g) ==
    /\ gor[g].at = "read"
    /\ gor' = [gor EXCEPT ![g].at = "done", ![g].seen = << >>]
    /\ IF gor[g].op = "NearRegion"
       THEN /\ query' = [query EXCEPT !["q1"].errors =
                            Append(gor[g].seen, IsOne(gor[g].arg).err)]
            /\ heap' = heap
       ELSE LET s == Content(heap, gor[g].seen)
                r == NewSet(heap, IF gor[g].op = "ByProvider"
                                  THEN OnProvider(s, gor[g].arg)
                                  ELSE ByCountry(s, gor[g].arg))
            IN  /\ query' = [query EXCEPT !["q1"].regions = r.set]
                /\ heap' = r.heap
    /\ UNCHANGED <<regionRegistry, loaded, alone, ret, held, sets, panicked, prog, pc>>

InitRace ==
    /\ \E catalog \in Catalogs : Load(catalog)
    /\ prog = << >>

NextRace ==
    \/ (\A g \in Goroutines : gor[g].at = "idle") /\ NewQuery("q1")
    \/ \E g \in Goroutines, c \in RaceCalls : Enter(g, c)
    \/ \E g \in Goroutines : ReadField(g)
    \/ \E g \in Goroutines : WriteField(g)

SpecRace == InitRace /\ [][NextRace]_vars

(***************************************************************************)
(* Properties of the Query builder.                                        *)
(***************************************************************************)
\* the Set behind Query q after the step
RegionsAfter(q) == Content(heap', query'[q].regions)

\* the catalog's Regions, the codes enumerated in the given order
CatalogIn(order) == Concat([i \in DOMAIN order |-> loaded[order[i]]])

\* the elements of s within radiusKm of Region ref
Within(s, ref, radiusKm) ==
    SelectSeq(s, LAMBDA r :
        haversineDistance(r.Latitude, r.Longitude, ref.Latitude, ref.Longitude) =< radiusKm)

\* C1: NearRegion with a code the catalog does not resolve appends exactly
\* one error (the one for that code) to the Query's error list and leaves
\* the Set unchanged; NewQuery().NearRegion(bad, r).ByProvider(p)
\* .ExecWithErrors() returns a non-empty error list and exactly the catalog
\* snapshot filtered by provider p.
C1_NearRegionKeepsSet ==
    /\ [][\A q \in Queries, code \in CodeArgs \ DOMAIN regionRegistry, r \in RadiusArgs :
            ret'.op = "NearRegion" /\ QueryNearRegion(q, code, r) =>
                /\ query'[q].errors = Append(query[q].errors, ErrRegionNotFound(code))
                /\ RegionsAfter(q) = Regions(q)]_vars
    /\ [](prog \in NearRegionChains /\ pc = 4 /\ prog[2].code \notin DOMAIN regionRegistry =>
            /\ ret.op = "ExecWithErrors"
            /\ ret.errors # << >>
            /\ Content(heap, ret.set) =
                   SelectSeq(alone["q1"].snap,
                             LAMBDA r : EqualFold(r.Provider, prog[3].name)))

\* the chain of C1 has returned one error and a Set that the provider
\* filter made smaller than the snapshot, but not empty
C1_Witness ==
    /\ prog \in NearRegionChains
    /\ pc = 4
    /\ prog[2].code \notin DOMAIN regionRegistry
    /\ Len(ret.errors) = 1
    /\ ret.set.len > 0
    /\ ret.set.len < Len(alone["q1"].snap)

\* C2: Query.First() and Query.Last() return the oldest accumulated error
\* and no Region when the error list is not empty, whatever the Set holds;
\* with an empty error list they return the first/last element of the Set,
\* or an error and no Region when the Set is empty.
C2_FirstLast ==
    ret.op \in {"First", "Last"} =>
        LET errs == query[ret.q].errors
            s == Regions(ret.q)
        IN  IF Len(errs) > 0
            THEN ret.err = errs[1] /\ ret.region = ZeroRegion
            ELSE IF Len(s) = 0
            THEN ret.err # NoError /\ ret.region = ZeroRegion
            ELSE /\ ret.err = NoError
                 /\ ret.region = IF ret.op = "First" THEN s[1] ELSE s[Len(s)]

\* First() was called on a Query holding two different errors and a
\* non-empty Set
C2_Witness ==
    /\ ret.op = "First"
    /\ Len(query[ret.q].errors) = 2
    /\ query[ret.q].errors[1] # query[ret.q].errors[2]
    /\ query[ret.q].regions.len > 0

\* C3: for every integer n, zero and negative included, Limit(n) leaves the
\* Set equal to its first n elements when n is smaller than the count and
\* unchanged otherwise; it never panics, never adds elements and does not
\* touch the error list.
C3_LimitNeverFails ==
    [][\A q \in Queries, n \in LimitArgs :
            ret'.op = "Limit" /\ QueryLimit(q, n) =>
                /\ ~panicked'
                /\ query'[q].errors = query[q].errors
                /\ RegionsAfter(q) =
                       IF n < Len(Regions(q)) THEN SubSeq(Regions(q), 1, n) ELSE Regions(q)]_vars

\* C4: when no Region of the catalog is in the city, NearCity empties the
\* Set and leaves the error list unchanged, and an empty Set stays empty
\* under every chain step; when some Region of the catalog is in the city,
\* NearCity keeps exactly the elements of the Set within the radius of the
\* first such Region of the catalog, in the order the catalog is enumerated.
C4_NearCity ==
    /\ [][\A q \in Queries, name \in CityArgs, radius \in RadiusArgs :
            ret'.op = "NearCity" /\ QueryNearCity(q, name, radius) =>
                /\ query'[q].errors = query[q].errors
                /\ IF \A c \in DOMAIN loaded : \A i \in DOMAIN loaded[c] :
                          ~EqualFold(loaded[c][i].City, name)
                   THEN RegionsAfter(q) = << >>
                   ELSE \E order \in Orders :
                          LET all == CatalogIn(order)
                              i == CHOOSE k \in DOMAIN all :
                                       /\ EqualFold(all[k].City, name)
                                       /\ \A j \in 1..(k - 1) : ~EqualFold(all[j].City, name)
                          IN  RegionsAfter(q) = Within(Regions(q), all[i], radius)]_vars
    /\ [][\A q \in Queries :
            query[q].live /\ Regions(q) = << >> /\ ret'.op \in ChainOps /\ ret'.q = q =>
                RegionsAfter(q) = << >>]_vars

\* NearCity with a city no Region is in has emptied a Set that held Regions
C4_Witness ==
    /\ prog \in NearCityChains
    /\ pc = 2
    /\ \A c \in DOMAIN loaded : \A i \in DOMAIN loaded[c] :
           ~EqualFold(loaded[c][i].City, prog[2].name)
    /\ ret.op = "NearCity"
    /\ query["q1"].regions.len = 0
    /\ query["q1"].errors = << >>
    /\ Len(alone["q1"].snap) > 0

\* C5: Exec() returns the Query's current Set whether or not errors were
\* accumulated; ExecWithErrors() returns the same Set and the accumulated
\* errors in the order they were accumulated; only a NearRegion whose code
\* does not resolve adds an error, at the end of the list.
C5_Exec ==
    /\ [](ret.op \in {"Exec", "ExecWithErrors"} =>
            /\ ret.set = query[ret.q].regions
            /\ ret.errors = IF ret.op = "Exec" THEN << >> ELSE query[ret.q].errors)
    /\ [][\A q \in Queries :
            \/ query'[q].errors = query[q].errors
            \/ ret'.op = "NewQuery" /\ ret'.q = q /\ query'[q].errors = << >>
            \/ /\ ret'.op = "NearRegion"
               /\ ret'.q = q
               /\ \E code \in CodeArgs \ DOMAIN regionRegistry :
                      query'[q].errors = Append(query[q].errors, ErrRegionNotFound(code))]_vars

\* ExecWithErrors() has returned two errors and a non-empty Set
C5_Witness ==
    /\ ret.op = "ExecWithErrors"
    /\ Len(ret.errors) = 2
    /\ ret.errors[1] # ret.errors[2]
    /\ ret.set.len > 0

\* C6: InCountry(c).ByProvider(p).ActiveOnly().Exec() on a snapshot returns
\* exactly the snapshot's elements whose Country matches c, whose Provider
\* matches p and whose Status is Active, in the snapshot's order.
C6_ChainIsSetPipeline ==
    prog \in FilterChains /\ pc = 5 =>
        LET S == alone["q1"].snap
            result == Content(heap, ret.set)
        IN  /\ result = ActiveOnly(OnProvider(ByCountry(S, prog[2].name), prog[3].name))
            /\ result = SelectSeq(S, LAMBDA r :
                            /\ EqualFold(r.Country, prog[2].name)
                            /\ EqualFold(r.Provider, prog[3].name)
                            /\ r.Status = Active)

\* the chain of C6 has returned a non-empty Set from a snapshot holding a
\* Region of the country that is not Active
C6_Witness ==
    /\ prog \in FilterChains
    /\ pc = 5
    /\ ret.set.len > 0
    /\ \E i \in DOMAIN alone["q1"].snap :
           /\ EqualFold(alone["q1"].snap[i].Country, prog[2].name)
           /\ alone["q1"].snap[i].Status # Active

\* C7: the query engine never writes the catalog: after any sequence of
\* NewQuery(), chain and terminal calls on the Query instances, the
\* registry maps the same codes to the same Regions in the same order as
\* when it was loaded.
C7_CatalogNeverWritten ==
    /\ DOMAIN regionRegistry = DOMAIN loaded
    /\ \A code \in DOMAIN loaded : Content(heap, regionRegistry[code]) = loaded[code]

\* both Queries are in use and one of them has just been sorted in place
\* into an order that is not the order of its snapshot
C7_Witness ==
    /\ query["q1"].live
    /\ query["q2"].live
    /\ ret.op \in {"SortByName", "SortByProvider", "SortByDistance"}
    /\ Len(Regions(ret.q)) = Len(alone[ret.q].snap)
    /\ Regions(ret.q) # alone[ret.q].snap

\* C8: two Queries made by separate NewQuery() calls do not interfere: in
\* every interleaving of their calls, the Set and the error list of each
\* are those the same calls produce on that Query running alone on its
\* snapshot, and a terminal call returns exactly them.
C8_NoInterference ==
    /\ \A q \in Queries :
           query[q].live =>
               /\ Regions(q) = alone[q].regions
               /\ query[q].errors = alone[q].errors
    /\ ret.op = "ExecWithErrors" =>
           /\ Content(heap, ret.set) = alone[ret.q].regions
           /\ ret.errors = alone[ret.q].errors
    /\ ret.op = "First" =>
           /\ alone[ret.q].errors # << >> => ret.err = alone[ret.q].errors[1]
           /\ alone[ret.q].errors = << >> /\ alone[ret.q].regions # << >> =>
                  ret.region = alone[ret.q].regions[1]

\* a terminal call on one Query, after the other one was sorted in place
\* into an order that is not the order of its snapshot and the two Sets
\* have come to differ
C8_Witness ==
    /\ ret.op = "ExecWithErrors"
    /\ \E o \in Queries \ {ret.q} :
           /\ query[o].live
           /\ Len(Regions(o)) = Len(alone[o].snap)
           /\ Regions(o) # alone[o].snap
           /\ Regions(o) # Regions(ret.q)
    /\ ret.set.len > 0

\* C10: Region records leave the catalog only as copies: whatever a caller
\* has written to the collections it got from lookups, Is(code).All() for a
\* code of the catalog returns the records the catalog was loaded with.
C10_LookupsReturnCopies ==
    ret.op = "Is.All" /\ ret.code \in DOMAIN loaded =>
        Content(heap, ret.set) = loaded[ret.code]

\* what call c makes of the Set and the error list st when nothing else
\* runs
Sequentially(c, st) ==
    IF c.op = "NearRegion" THEN [st EXCEPT !.errors = Append(@, ErrRegionNotFound(c.arg))]
    ELSE IF c.op = "ByProvider"
    THEN [st EXCEPT !.regions = SelectSeq(@, LAMBDA r : EqualFold(r.Provider, c.arg))]
    ELSE [st EXCEPT !.regions = SelectSeq(@, LAMBDA r : EqualFold(r.Country, c.arg))]

\* C9: the Query is safe for concurrent use: when two goroutines have each
\* made a call on the same new Query at the same time, no update is lost:
\* the Set and the error list are those of the two calls made one after the
\* other, in one of the two orders.
C9_SafeForConcurrentUse ==
    (\A g \in Goroutines : gor[g].at = "done") =>
        LET start == [regions |-> alone["q1"].snap, errors |-> << >>]
            call(g) == [op |-> gor[g].op, arg |-> gor[g].arg]
        IN  \E g \in Goroutines, h \in Goroutines :
                /\ g # h
                /\ [regions |-> Regions("q1"), errors |-> query["q1"].errors]
                       = Sequentially(call(h), Sequentially(call(g), start))

(***************************************************************************)
(* Properties of the Set methods.                                          *)
(***************************************************************************)
\* the elements of s at the positions I, in their order
Pick(s, I) ==
    [k \in 1..Cardinality(I) |->
        s[CHOOSE i \in I : Cardinality({j \in I : j < i}) = k - 1]]

\* the Codes of s, and the positions of s holding the first occurrence of
\* a Code
CodesOf(s) == {s[i].Code : i \in DOMAIN s}
FirstOfCode(s) == {i \in DOMAIN s : \A j \in 1..(i - 1) : s[j].Code # s[i].Code}

\* the given Sets are as they were given, and the Set returned shares no
\* backing array with them
GivenUntouched ==
    /\ SetA = sets.wasA
    /\ SetB = sets.wasB
    /\ ret.set.arr \notin {sets.A.arr, sets.B.arr}

\* C11: A.Union(B) is the first occurrence of each Code of A in A's order,
\* then the first occurrence of each Code of B that is not in A, in B's
\* order; no Code occurs twice in it, and A and B are unchanged.
C11_Union ==
    ret.op = "Union" =>
        LET A == sets.wasA
            B == sets.wasB
            R == Content(heap, ret.set)
        IN  /\ R = Pick(A, FirstOfCode(A))
                     \o Pick(B, {i \in FirstOfCode(B) : B[i].Code \notin CodesOf(A)})
            /\ \A i \in DOMAIN R, j \in DOMAIN R : i # j => R[i].Code # R[j].Code
            /\ GivenUntouched

\* Union was called on an A that repeats a Code and a B that holds a Code
\* of A and a Code that is not in A
C11_Witness ==
    /\ ret.op = "Union"
    /\ Cardinality(CodesOf(sets.wasA)) < Len(sets.wasA)
    /\ CodesOf(sets.wasB) \cap CodesOf(sets.wasA) # {}
    /\ CodesOf(sets.wasB) \ CodesOf(sets.wasA) # {}

\* C12 (as stated): the length of A.Union(B) is len(A) + len(B) minus the
\* number of Codes that occur in both A and B.
C12_UnionLength ==
    ret.op = "Union" =>
        Len(Content(heap, ret.set)) =
            Len(sets.wasA) + Len(sets.wasB)
                - Cardinality(CodesOf(sets.wasA) \cap CodesOf(sets.wasB))

\* C12 (amended): the length of A.Union(B) is the number of different Codes
\* of A plus the number of different Codes of B minus the number of Codes
\* that occur in both; it is len(A) + len(B) minus that number when neither
\* A nor B holds a Code twice.
C12_UnionLengthByCode ==
    ret.op = "Union" =>
        LET A == sets.wasA
            B == sets.wasB
            n == Len(Content(heap, ret.set))
            common == Cardinality(CodesOf(A) \cap CodesOf(B))
        IN  /\ n = Cardinality(CodesOf(A)) + Cardinality(CodesOf(B)) - common
            /\ Cardinality(CodesOf(A)) = Len(A) /\ Cardinality(CodesOf(B)) = Len(B) =>
                   n = Len(A) + Len(B) - common

\* Union was called on an A and a B that both repeat a Code and have a
\* Code in common
C12_Witness ==
    /\ ret.op = "Union"
    /\ Cardinality(CodesOf(sets.wasA)) < Len(sets.wasA)
    /\ Cardinality(CodesOf(sets.wasB)) < Len(sets.wasB)
    /\ CodesOf(sets.wasA) \cap CodesOf(sets.wasB) # {}

\* C13: A.Intersect(B) and A.Difference(B) partition A: Intersect is the
\* elements of A whose Code occurs in B, Difference those whose Code does
\* not, each in A's order, so that every position of A is in exactly one of
\* them and the two lengths add up to len(A).
C13_Partition ==
    LET A == sets.wasA
        in == {i \in DOMAIN A : A[i].Code \in CodesOf(sets.wasB)}
        out == {i \in DOMAIN A : A[i].Code \notin CodesOf(sets.wasB)}
    IN  /\ ret.op = "Intersect" => Content(heap, ret.set) = Pick(A, in) /\ GivenUntouched
        /\ ret.op = "Difference" => Content(heap, ret.set) = Pick(A, out) /\ GivenUntouched
        /\ ret.op = "Difference" /\ ret.arg = <<"Intersect">> =>
               /\ held.was = Pick(A, in)
               /\ Content(heap, held.set) = held.was
               /\ Len(held.was) + Len(Content(heap, ret.set)) = Len(A)
               /\ in \cap out = {} /\ in \cup out = DOMAIN A

\* Difference was called after Intersect on an A of which some elements
\* have their Code in B and some have not, B holding a Region that has a
\* Code of A but is another record
C13_Witness ==
    /\ ret.op = "Difference"
    /\ ret.arg = <<"Intersect">>
    /\ held.set.len > 0
    /\ ret.set.len > 0
    /\ \E i \in DOMAIN sets.wasA, j \in DOMAIN sets.wasB :
           sets.wasA[i].Code = sets.wasB[j].Code /\ sets.wasA[i] # sets.wasB[j]

\* C14: after SortByName, SortByProvider, SortByCountry or SortByDistance
\* the Set is ascending by the key: no element has a greater key than an
\* element after it.
C14_Sorted ==
    LET s == SetA
        before(i, j) ==
            CASE ret.op = "SortByName" -> ~StringGreater(s[i].Name, s[j].Name)
              [] ret.op = "SortByProvider" -> ~StringGreater(s[i].Provider, s[j].Provider)
              [] ret.op = "SortByCountry" -> ~StringGreater(s[i].Country, s[j].Country)
              [] ret.op = "SortByDistance" ->
                    haversineDistance(ret.arg[1], ret.arg[2], s[i].Latitude, s[i].Longitude)
                        =< haversineDistance(ret.arg[1], ret.arg[2],
                                             s[j].Latitude, s[j].Longitude)
    IN  ret.op \in {"SortByName", "SortByProvider", "SortByCountry", "SortByDistance"}
            /\ sets.wasA # << >> =>
                \A i \in DOMAIN s, j \in DOMAIN s : i < j => before(i, j)

\* SortByDistance was called on a Set of three Regions given farthest
\* first, at three different distances
C14_Witness ==
    /\ ret.op = "SortByDistance"
    /\ Len(sets.wasA) = 3
    /\ \A i \in 1..2 :
           haversineDistance(ret.arg[1], ret.arg[2],
                             sets.wasA[i].Latitude, sets.wasA[i].Longitude)
             > haversineDistance(ret.arg[1], ret.arg[2],
                                 sets.wasA[i + 1].Latitude, sets.wasA[i + 1].Longitude)

C20_Filter ==
    LET satisfies(r) ==
            CASE ret.op = "Filter" -> Holds(ret.arg[1], r)
              [] ret.op = "OnProvider" -> EqualFold(r.Provider, ret.arg[1])
              [] ret.op = "ByCountry" -> EqualFold(r.Country, ret.arg[1])
              [] ret.op = "ByCity" -> EqualFold(r.City, ret.arg[1])
              [] ret.op = "ByContinent" -> EqualFold(r.Continent, ret.arg[1])
              [] ret.op = "ActiveOnly" -> r.Status = Active
              [] ret.op = "Near" ->
                    haversineDistance(r.Latitude, r.Longitude, ret.arg[1], ret.arg[2])
                        =< ret.arg[3]
    IN  ret.op \in {"Filter", "OnProvider", "ByCountry", "ByCity", "ByContinent",
                    "ActiveOnly", "Near"} =>
            /\ Content(heap, ret.set) = SelectSeq(sets.wasA, satisfies)
            /\ GivenUntouched
            /\ ret.err = NoError
            /\ ~panicked

\* OnProvider was called on a Set whose first element is of another
\* provider and whose last element is of the provider
C20_Witness ==
    /\ ret.op = "OnProvider"
    /\ Len(sets.wasA) = 3
    /\ ~EqualFold(sets.wasA[1].Provider, ret.arg[1])
    /\ EqualFold(sets.wasA[3].Provider, ret.arg[1])
    /\ ret.set.len > 0

(***************************************************************************)
(* Properties of the lookups by code.                                      *)
(***************************************************************************)
\* the catalog, as loaded, holds the code
Present(code) == code \in DOMAIN loaded

\* all the Regions of the catalog as loaded
Loaded == UNION {{loaded[c][i] : i \in DOMAIN loaded[c]} : c \in DOMAIN loaded}

\* C16: Are(codes...) returns an error iff some given code is absent from
\* the catalog; the error is ErrRegionNotFound naming every absent code in
\* input order; the Set holds the catalog's Regions of every present code
\* in input order, with or without an error (no codes: empty Set, no error).
C16_Are ==
    ret.op = "Are" =>
        LET codes == ret.arg
            absent == SelectSeq(codes, LAMBDA c : ~Present(c))
        IN  /\ ret.err # NoError <=> \E i \in DOMAIN codes : ~Present(codes[i])
            /\ ret.err # NoError =>
                   /\ ret.err.kind = ErrNotFound.kind
                   /\ ret.err.codes = absent
            /\ Content(heap, ret.set) =
                   Concat([i \in DOMAIN codes |->
                              IF Present(codes[i]) THEN loaded[codes[i]] ELSE << >>])
            /\ codes = << >> => ret.set.len = 0 /\ ret.err = NoError
            /\ ~panicked

\* Are was called with an absent code, a present code and another absent
\* code
C16_Witness ==
    /\ ret.op = "Are"
    /\ Len(ret.arg) = 3
    /\ ~Present(ret.arg[1])
    /\ Present(ret.arg[2])
    /\ ~Present(ret.arg[3])
    /\ ret.arg[3] # ret.arg[1]

\* C17: a lookup by code fails exactly when the code (the empty one
\* included) is absent from the catalog: Is(code).First() returns an error
\* that is ErrRegionNotFound and MustIs(code) panics; for a present code
\* both return, without error or panic, a Region with that Code.
C17_LookupByCode ==
    /\ ret.op = "Is.First" =>
           /\ ~panicked
           /\ IF Present(ret.code)
              THEN ret.err = NoError /\ ret.region.Code = ret.code
              ELSE ret.err # NoError /\ ret.err.kind = ErrNotFound.kind
    /\ ret.op = "MustIs" =>
           /\ panicked <=> ~Present(ret.code)
           /\ Present(ret.code) => ret.err = NoError /\ ret.region.Code = ret.code

\* Is(code).First() was called with the empty code
C17_Witness ==
    /\ ret.op = "Is.First"
    /\ ret.code = ""
    /\ ret.err # NoError

\* C18: Distance(from, to) returns an error iff from or to is absent from
\* the catalog, the source-region error whenever from is absent; when both
\* are present it returns, without error, the distance between the first
\* Region of each code, which is not negative.
C18_Distance ==
    ret.op = "Distance" =>
        LET from == ret.arg[1]
            to == ret.arg[2]
        IN  /\ ~panicked
            /\ ret.err # NoError <=> ~Present(from) \/ ~Present(to)
            /\ ~Present(from) => ret.err = Wrap("source region", ErrNotFound)
            /\ Present(from) /\ ~Present(to) =>
                   ret.err = Wrap("destination region", ErrNotFound)
            /\ Present(from) /\ Present(to) =>
                   /\ ret.dist = haversineDistance(loaded[from][1].Latitude,
                                                   loaded[from][1].Longitude,
                                                   loaded[to][1].Latitude,
                                                   loaded[to][1].Longitude)
                   /\ ret.dist >= 0

\* Distance was called with two absent codes
C18_Witness ==
    /\ ret.op = "Distance"
    /\ ~Present(ret.arg[1])
    /\ ~Present(ret.arg[2])
    /\ ret.err # NoError

\* C19: Closest(to) returns an error when to is absent from the catalog;
\* when to is present and the catalog holds a Region of another Code it
\* returns, without error, a Region of another Code than which no Region of
\* another Code is nearer to the target (the first Region of to); it never
\* returns a Region whose Code is to.
C19_Closest ==
    ret.op = "Closest" =>
        LET to == ret.code
            others == {r \in Loaded : r.Code # to}
        IN  /\ ~panicked
            /\ ~Present(to) => ret.err # NoError
            /\ Present(to) /\ others # {} =>
                   /\ ret.err = NoError
                   /\ ret.region \in others
                   /\ \A r \in others :
                          Distance(loaded[to][1], ret.region) =< Distance(loaded[to][1], r)
            /\ ret.err = NoError => ret.region.Code # to

\* Closest was called where the catalog holds Regions of another code at
\* different distances from the target, of other codes themselves
C19_Witness ==
    /\ ret.op = "Closest"
    /\ ret.err = NoError
    /\ \E r \in Loaded :
           /\ r.Code \notin {ret.code, ret.region.Code}
           /\ Distance(loaded[ret.code][1], r) > Distance(loaded[ret.code][1], ret.region)

(***************************************************************************)
(* Further properties of Region and Set.                                   *)
(***************************************************************************)
\* the distance from Region r to the point (lat, lng)
DistanceTo(r, lat, lng) == haversineDistance(r.Latitude, r.Longitude, lat, lng)

\* C22: Region.IsNear(lat, lng, radiusKm) is true exactly when the distance
\* from the Region to the point is at most radiusKm, a Region at exactly
\* the radius included; Set.Near keeps exactly the elements for which
\* IsNear is true, so a Region is in the Near result around its own
\* coordinates for every radius >= 0.
C22_IsNear ==
    /\ ret.op = "IsNear" =>
           LET r == sets.wasA[ret.arg[1]]
               d == DistanceTo(r, ret.arg[2], ret.arg[3])
           IN  /\ ret.ok <=> d =< ret.arg[4]
               /\ d = ret.arg[4] => ret.ok
               /\ SetA = sets.wasA
    /\ ret.op = "Near" =>
           LET s == sets.wasA
               kept == {i \in DOMAIN s : DistanceTo(s[i], ret.arg[1], ret.arg[2]) =< ret.arg[3]}
           IN  /\ Content(heap, ret.set) = Pick(s, kept)
               /\ \A i \in DOMAIN s :
                      s[i].Latitude = ret.arg[1] /\ s[i].Longitude = ret.arg[2]
                          /\ ret.arg[3] >= 0 => i \in kept

\* IsNear was called on a Region that is away from the point, with the
\* radius equal to the distance
C22_Witness ==
    /\ ret.op = "IsNear"
    /\ ret.arg[4] > 0
    /\ DistanceTo(sets.wasA[ret.arg[1]], ret.arg[2], ret.arg[3]) = ret.arg[4]
    /\ ret.ok

\* how often Region r occurs in s
Occurrences(s, r) == Cardinality({i \in DOMAIN s : s[i] = r})

\* C25: each in-place sort (SortByName, SortByProvider, SortByCountry,
\* SortByDistance) ends for every Set and leaves a permutation of it: the
\* length is the same and every record occurs as often as before.
C25_SortPermutes ==
    ret.op \in {"SortByName", "SortByProvider", "SortByCountry", "SortByDistance"} =>
        /\ Len(SetA) = Len(sets.wasA)
        /\ \A r \in Elements(SetA) \cup Elements(sets.wasA) :
               Occurrences(SetA, r) = Occurrences(sets.wasA, r)
        /\ SetB = sets.wasB
        /\ ~panicked

\* a sort was called on a Set of three Regions holding one Region twice,
\* and changed the order
C25_Witness ==
    /\ ret.op \in {"SortByName", "SortByProvider", "SortByCountry", "SortByDistance"}
    /\ Len(sets.wasA) = 3
    /\ Cardinality(Elements(sets.wasA)) = 2
    /\ SetA # sets.wasA

(***************************************************************************)
(* Further properties of the Query builder.                                *)
(***************************************************************************)
SortOps == {"SortByDistance", "SortByName", "SortByProvider", "SortByCountry"}

\* C27: the error list of a Query only grows at its end: NearRegion with a
\* code absent from the catalog adds one error (so the length is the number
\* of such calls since NewQuery, which starts with no error), and no other
\* chain or terminal call adds, removes, replaces or reorders an error.
C27_ErrorsOnlyGrow ==
    [][\A q \in Queries :
        LET errors == query[q].errors
            after == query'[q].errors
        IN  /\ \A code \in CodeArgs, r \in RadiusArgs :
                   ret'.op = "NearRegion" /\ ret'.q = q /\ QueryNearRegion(q, code, r) =>
                       IF code \in DOMAIN loaded
                       THEN after = errors
                       ELSE Len(after) = Len(errors) + 1 /\ SubSeq(after, 1, Len(errors)) = errors
            /\ ret'.op = "NewQuery" /\ ret'.q = q => after = << >>
            /\ after # errors =>
                   \/ ret'.op = "NewQuery" /\ ret'.q = q
                   \/ /\ ret'.op = "NearRegion" /\ ret'.q = q
                      /\ \E code \in CodeArgs \ DOMAIN loaded :
                             after = Append(errors, ErrRegionNotFound(code))]_vars

\* a chain step other than NearRegion was made on a Query that holds two
\* different errors
C27_Witness ==
    /\ ret.op \in ChainOps \ {"NearRegion"}
    /\ Len(query[ret.q].errors) = 2
    /\ query[ret.q].errors[1] # query[ret.q].errors[2]

\* C28: the Set of a Query holds only records of the snapshot NewQuery()
\* took, each at most as often as the snapshot, and no chain step makes
\* Count() greater (a sort keeps it as it is).
C28_WithinSnapshot ==
    /\ [](\A q \in Queries :
            query[q].live =>
                \A r \in Elements(Regions(q)) :
                    Occurrences(Regions(q), r) =< Occurrences(alone[q].snap, r))
    /\ [][\A q \in Queries :
            ret'.op \in ChainOps /\ ret'.q = q =>
                /\ Len(RegionsAfter(q)) =< Len(Regions(q))
                /\ ret'.op \in SortOps => Len(RegionsAfter(q)) = Len(Regions(q))]_vars

\* NearCity was called on a Query and left its Set with fewer Regions than
\* the snapshot, but not empty
C28_Witness ==
    /\ ret.op = "NearCity"
    /\ query[ret.q].regions.len > 0
    /\ query[ret.q].regions.len < Len(alone[ret.q].snap)

\* C21: every continent filter of the Query builder (InContinent(name) and
\* the shortcuts InAsia, InEurope, InAmericas, InOceania, InAfrica) keeps a
\* record iff its Continent equals the target name ignoring letter case;
\* InAmericas keeps exactly the records that InContinent("North America")
\* or InContinent("South America") would keep.
C21_ContinentFilters ==
    [][\A q \in Queries :
        /\ \A name \in ContinentNames \cup {"Asia", "Europe", "Oceania", "Africa"} :
               ret'.op = "InContinent" /\ ret'.q = q /\ QueryInContinent(q, name) =>
                   RegionsAfter(q) =
                       SelectSeq(Regions(q), LAMBDA r : EqualFold(r.Continent, name))
        /\ ret'.op = "InAmericas" /\ ret'.q = q /\ QueryInAmericas(q) =>
               RegionsAfter(q) =
                   SelectSeq(Regions(q),
                             LAMBDA r : \/ EqualFold(r.Continent, "North America")
                                        \/ EqualFold(r.Continent, "South America"))]_vars

\* C26: a Set returned by Exec() or ExecWithErrors() is stable: no chain
\* call made on the same Query afterwards changes the elements or the
\* order of the Set the caller was given.
C26_ReturnedSetIsStable ==
    held.set.len > 0 => Content(heap, held.set) = held.was

\* C30: NearCity keeps the same records whatever order allRegions()
\* enumerates the catalog in, also with several Regions of the catalog in
\* the city at different coordinates: what a NearCity call leaves is what
\* it would leave under every enumeration order.
C30_NearCityDeterministic ==
    [][\A q \in Queries, name \in CityArgs, radius \in RadiusArgs :
        ret'.op = "NearCity" /\ ret'.q = q /\ QueryNearCity(q, name, radius) =>
            \A order \in Orders :
                LET all == CatalogIn(order)
                    inCity == {k \in DOMAIN all : EqualFold(all[k].City, name)}
                IN  IF inCity = {}
                    THEN RegionsAfter(q) = << >>
                    ELSE RegionsAfter(q) =
                             Within(Regions(q),
                                    all[CHOOSE k \in inCity : \A j \in inCity : k =< j],
                                    radius)]_vars

\* the values of field f ("Provider", "Country" or "City") of the Regions s
FieldOf(f, s) ==
    {IF f = "Provider" THEN s[i].Provider
     ELSE IF f = "Country" THEN s[i].Country ELSE s[i].City : i \in DOMAIN s}

\* C23: the projections of a Query are functions of its current Set, which
\* they leave as it is: Count() is its length, Has() is true iff Count() >
\* 0, Codes() and Names() list the Code / Name of every element in element
\* order, and Providers(), Countries() and Cities() (as the discovery
\* functions of the package do for the catalog) hold every value of the
\* field once and no other value.
C23_Projections ==
    /\ [](ret.q = "q1" =>
            LET s == Regions("q1")
                once(f) == /\ {ret.list[i] : i \in DOMAIN ret.list} = FieldOf(f, s)
                           /\ Len(ret.list) = Cardinality(FieldOf(f, s))
            IN  /\ ret.op = "Count" => ret.count = Len(s)
                /\ ret.op = "Has" => (ret.ok <=> Len(s) > 0)
                /\ ret.op = "Codes" =>
                       /\ Len(ret.list) = Len(s)
                       /\ \A i \in DOMAIN s : ret.list[i] = s[i].Code
                /\ ret.op = "Names" =>
                       /\ Len(ret.list) = Len(s)
                       /\ \A i \in DOMAIN s : ret.list[i] = s[i].Name
                /\ ret.op = "Providers" => once("Provider")
                /\ ret.op = "Countries" => once("Country")
                /\ ret.op = "Cities" => once("City"))
    /\ [](ret.q = "" /\ ret.op \in {"Providers", "Countries", "Cities"} =>
            LET f == IF ret.op = "Providers" THEN "Provider"
                     ELSE IF ret.op = "Countries" THEN "Country" ELSE "City"
                all == CatalogIn(CHOOSE order \in Orders : TRUE)
            IN  /\ {ret.list[i] : i \in DOMAIN ret.list} = FieldOf(f, all)
                /\ Len(ret.list) = Cardinality(FieldOf(f, all)))
    /\ [][ret'.op \in {"Count", "Has", "Codes", "Names", "Providers", "Countries", "Cities"} =>
            /\ query' = query
            /\ \A q \in Queries : RegionsAfter(q) = Regions(q)]_vars

\* Providers() was called on a Query whose Set holds three Regions of two
\* providers
C23_Witness ==
    /\ ret.op = "Providers"
    /\ ret.q = "q1"
    /\ query["q1"].regions.len = 3
    /\ Len(ret.list) = 2

\* C24: SortByDistance(lat, lng).Limit(n).Exec() with n >= 0 returns
\* min(n, Count) elements of the Query's prior Set, nearest first, and
\* every element of the prior Set that is left out is at least as far from
\* the point as every element returned.
C24_NearestFirst ==
    prog \in NearestChains /\ pc = Len(prog) =>
        LET prior == held.was
            n == prog[Len(prog) - 1].n
            lat == prog[Len(prog) - 2].lat
            lng == prog[Len(prog) - 2].lng
            got == Content(heap, ret.set)
        IN  /\ ret.op = "Exec"
            /\ Len(got) = IF n < Len(prior) THEN n ELSE Len(prior)
            /\ \A i \in DOMAIN got :
                   /\ Occurrences(got, got[i]) =< Occurrences(prior, got[i])
                   /\ i > 1 => DistanceTo(got[i - 1], lat, lng) =< DistanceTo(got[i], lat, lng)
            /\ \A i \in DOMAIN prior :
                   Occurrences(got, prior[i]) < Occurrences(prior, prior[i]) =>
                       \A j \in DOMAIN got :
                           DistanceTo(got[j], lat, lng) =< DistanceTo(prior[i], lat, lng)

\* the two nearest of four Regions were returned, and not in the order the
\* prior Set had them in
C24_Witness ==
    /\ prog \in NearestChains
    /\ pc = Len(prog)
    /\ Len(held.was) = 4
    /\ ret.set.len = 2
    /\ Content(heap, ret.set) # SubSeq(held.was, 1, 2)
    /\ \E i \in 3..4 : held.was[i] = Content(heap, ret.set)[1]

\* C29: the filtering chain steps InCountry, InCity, InContinent,
\* ByProvider, ActiveOnly, PreviewOnly, DeprecatedOnly, Near and Filter
\* commute and are idempotent: two Queries with the same Set end with the
\* same Set, in the same order, when one runs two of the steps in one order
\* and the other in the other order, and when one runs a step twice and the
\* other runs it once.
C29_FiltersCommute ==
    /\ prog \in CommuteChains \cup TwiceChains
    /\ pc = Len(prog)
    /\ alone["q1"].snap = alone["q2"].snap
    => Regions("q1") = Regions("q2")

\* InCountry and PreviewOnly, in both orders, left one of three Regions
C29_Witness ==
    /\ prog \in CommuteChains
    /\ pc = Len(prog)
    /\ alone["q1"].snap = alone["q2"].snap
    /\ prog[3].op = "InCountry"
    /\ prog[4].op = "PreviewOnly"
    /\ Len(alone["q1"].snap) > 2
    /\ Len(Regions("q1")) = 1
    /\ Regions("q1") = Regions("q2")

====
